---- MODULE Spec2Model ----
(***************************************************************************)
(* Step-trace builders of the algorithm widgets:                           *)
(*   buildFailureEvents  (KmpFailureTableDemo.tsx)                         *)
(*   buildSearchEvents   (KmpSearchDemo.tsx)                               *)
(*   buildFrames         (Kosaraju SCC demo)                               *)
(* JavaScript arrays are objects: the model keeps them in a heap and the   *)
(* program's variables and the frames hold references into it, so that a   *)
(* copy and an alias are different things.  Array indices are 0-based as   *)
(* in the source; At and Put translate to TLA+'s 1-based sequences.        *)
(***************************************************************************)
EXTENDS Integers, Sequences, FiniteSets, TLC

\* ------------------------------------------------------------------ bounds
MaxPattern == 4
MaxSearchPattern == 3
MaxText == 4
MaxNodes == 2
MaxEdges == 2

Alphabet == {"A", "B"}

\* ----------------------------------------------------- program constants
DEFAULT_PATTERN == <<"A", "B", "A", "B", "C">>

DEFAULT_TEXT ==
  <<"A", "B", "A", "B", "D", "A", "B", "A", "B", "C", "A", "B", "A", "B">>

PRESETS ==
  << [nodes |-> <<"A", "B", "C", "D", "E", "F">>,
      edges |-> << <<0, 1>>, <<1, 2>>, <<2, 0>>, <<2, 3>>, <<3, 4>>, <<4, 5>>,
                   <<5, 3>> >>],
     [nodes |-> <<"A", "B", "C", "D", "E", "F", "G">>,
      edges |-> << <<0, 1>>, <<1, 2>>, <<2, 0>>, <<2, 3>>, <<3, 4>>, <<4, 3>>,
                   <<4, 5>>, <<5, 6>>, <<6, 5>> >>] >>

\* ----------------------------------------------------------------- values
NULL == -1

NullRef == 0

At(s, k) == s[k + 1]

Put(s, k, v) == [s EXCEPT ![k + 1] = v]

Last(s) == s[Len(s)]

\* faulty variant of CharAt: the position is compared, not the character
CharAtPosition(s, k) == k

\* chars[k]: reading an array past its end gives undefined
CharAt(s, k) == IF k \in 0..(Len(s) - 1) THEN s[k + 1] ELSE "undefined"

RECURSIVE Reverse(_)
Reverse(s) == IF s = <<>> THEN <<>> ELSE Append(Reverse(Tail(s)), Head(s))

\* ------------------------------------------------------------------- heap
\* new array object holding v: the heap after it, and its reference
New(h, v) == [heap |-> Append(h, v), ref |-> Len(h) + 1]

\* faulty variant of SpreadRef: the frame is given the array itself
SpreadRefAlias(r, fresh) == r

\* what [...arr] evaluates to: the reference of the fresh copy, not of arr
SpreadRef(r, fresh) == fresh

\* faulty variant of Snapshot: a fresh array, but the elements are not copied
SnapshotEmpty(h, r) == [heap |-> Append(h, <<>>), ref |-> Len(h) + 1]

\* [...arr]: a new array with the elements of the array r refers to
Snapshot(h, r) == [heap |-> Append(h, h[r]), ref |-> SpreadRef(r, Len(h) + 1)]

VARIABLES
  tracer,            \* which builder this run invokes
  pc,                \* position inside the invocation
  run,               \* 1: first invocation, 2: invocation repeated on the same input
  firstTrace,        \* the trace the first invocation returned, by value
  heap,              \* the array objects
  text, pattern, preset,                       \* the arguments
  i, j, filledUntil, b, matches, events,       \* locals of the two KMP builders
  adj, radj, visited1, visited2, finishOrder, sccs, currentComponent, stack,
  phase, activeNode, activeEdge, order, orderIndex, frames,
  index,             \* the position order.forEach has reached
  calls,             \* the activation records of dfs1 / dfs2: node, next edge
  stepIndex,         \* the widget's state stepIndex
  lengthDep,         \* the trace length the clamping effect last ran for
  presetDep,         \* the preset the resetting effect last ran for
  lastEvent          \* the handler that ran last ("mount" before any)

inputVars == <<tracer, text, pattern, preset>>

kmpVars == <<i, j, filledUntil, b, matches, events>>

sccVars == <<adj, radj, visited1, visited2, finishOrder, sccs, currentComponent,
             stack, phase, activeNode, activeEdge, order, orderIndex, frames,
             index, calls>>

widgetVars == <<stepIndex, lengthDep, presetDep, lastEvent>>

vars == <<pc, run, firstTrace, heap, inputVars, kmpVars, sccVars, widgetVars>>

\* ------------------------------------------------- buildFailureEvents
\* faulty variant of FallbackTarget: restart from the sentinel, not the border
FallbackReset(table, jj) == -1

\* faulty variant of FallbackTarget: j is left where it is
FallbackStay(table, jj) == jj

\* const nextJ = b[j]
FallbackTarget(table, jj) == At(table, jj)

\* faulty variant of InitialTable: the sentinel b[0] = -1 is forgotten
InitialTableNoSentinel(m) == [k \in 1..(m + 1) |-> 0]

\* lines 32 and 37: Array.from({ length: m + 1 }, () => 0), then b[0] = -1
InitialTable(m) == [k \in 1..(m + 1) |-> IF k = 1 THEN -1 ELSE 0]

FailureFrame(type, ii, jj, fu, bref, note) ==
  [type |-> type, iIndex |-> ii, jIndex |-> jj, filledUntil |-> fu,
   b |-> bref, note |-> note]

\* lines 30-46: the locals, b[0] = -1, the init frame
FailureBegin ==
  /\ tracer = "failure"
  /\ pc = "start"
  /\ LET m  == Len(pattern)
         nb == New(heap, InitialTable(m))
         cp == Snapshot(nb.heap, nb.ref)
     IN  /\ b' = nb.ref
         /\ heap' = cp.heap
         /\ events' = << FailureFrame("init", -1, -1, 0, cp.ref, <<"init">>) >>
  /\ i' = 0
  /\ j' = -1
  /\ filledUntil' = 0
  /\ pc' = "loop"
  /\ UNCHANGED <<run, firstTrace, inputVars, widgetVars, matches, sccVars>>

\* lines 49-70: one turn of the inner loop, a compare and a fallback frame
FailureMismatch ==
  /\ tracer = "failure"
  /\ pc = "loop"
  /\ i < Len(pattern)
  /\ j >= 0
  /\ CharAt(pattern, i) # CharAt(pattern, j)
  /\ LET c1    == Snapshot(heap, b)
         nextJ == FallbackTarget(heap[b], j)
         c2    == Snapshot(c1.heap, b)
         f1    == FailureFrame("compare", i, j, filledUntil, c1.ref,
                               <<"mismatch", i, j>>) @@ [match |-> FALSE]
         f2    == FailureFrame("fallback", i, j, filledUntil, c2.ref,
                               <<"fallback", j, nextJ>>) @@ [nextJ |-> nextJ]
     IN  /\ events' = events \o <<f1, f2>>
         /\ heap' = c2.heap
         /\ j' = nextJ
  /\ UNCHANGED <<pc, run, firstTrace, inputVars, widgetVars, i, filledUntil, b, matches,
                 sccVars>>

\* faulty variant of SetEntry: the entry before i is written
SetEntryBefore(table, ii, jj) == Put(table, ii - 1, jj)

\* line 86: b[i] = j
SetEntry(table, ii, jj) == Put(table, ii, jj)

\* lines 72-96: the optional compare frame of a match, then b[i] = j and the
\* set frame
FailureSet ==
  /\ tracer = "failure"
  /\ pc = "loop"
  /\ i < Len(pattern)
  /\ ~(j >= 0 /\ CharAt(pattern, i) # CharAt(pattern, j))
  /\ LET c1  == IF j >= 0 THEN Snapshot(heap, b) ELSE [heap |-> heap, ref |-> NullRef]
         f1  == IF j >= 0
                  THEN << FailureFrame("compare", i, j, filledUntil, c1.ref,
                                       <<"match", i, j>>) @@ [match |-> TRUE] >>
                  ELSE <<>>
         ni  == i + 1
         nj  == j + 1
         h2  == [c1.heap EXCEPT ![b] = SetEntry(@, ni, nj)]
         c2  == Snapshot(h2, b)
         f2  == FailureFrame("set", ni, nj, ni, c2.ref, <<"set", ni, nj>>)
                  @@ [setIndex |-> ni]
     IN  /\ events' = events \o f1 \o <<f2>>
         /\ heap' = c2.heap
         /\ i' = ni
         /\ j' = nj
         /\ filledUntil' = ni
  /\ UNCHANGED <<pc, run, firstTrace, inputVars, widgetVars, b, matches, sccVars>>

\* line 99: return { chars, events }
FailureReturn ==
  /\ tracer = "failure"
  /\ pc = "loop"
  /\ ~(i < Len(pattern))
  /\ pc' = "done"
  /\ UNCHANGED <<run, firstTrace, heap, inputVars, widgetVars, kmpVars, sccVars>>

\* a FailureEvent with the array it refers to read out of the heap
FailureView(h, f) == [f EXCEPT !.b = h[f.b]]

\* ------------------------------------------------- buildSearchEvents
RECURSIVE FailureTableLoop(_, _, _, _)
\* lines 37-44 of buildFailureTable: the two loops, on chars, table, i, j
FailureTableLoop(chars, table, ii, jj) ==
  IF ~(ii < Len(chars)) THEN table
  ELSE IF jj >= 0 /\ CharAt(chars, ii) # CharAt(chars, jj)
    THEN FailureTableLoop(chars, table, ii, At(table, jj))
    ELSE FailureTableLoop(chars, Put(table, ii + 1, jj + 1), ii + 1, jj + 1)

\* faulty variant of buildFailureTable: every prefix is given its longest
\* conceivable border, b[k] = k - 1
buildFailureTableGreedy(p) == [k \in 1..(Len(p) + 1) |-> k - 2]

\* faulty variant of buildFailureTable: no border is recorded
buildFailureTableNoBorders(p) ==
  [k \in 1..(Len(p) + 1) |-> IF k = 1 THEN -1 ELSE 0]

\* lines 30-46
buildFailureTable(p) ==
  FailureTableLoop(p, [k \in 1..(Len(p) + 1) |-> IF k = 1 THEN -1 ELSE 0], 0, -1)

SearchFrame(type, ti, pi, mref, note) ==
  [type |-> type, textIndex |-> ti, patternIndex |-> pi, matches |-> mref,
   note |-> note]

\* faulty variant of NewMatches: the list of an earlier invocation is kept
NewMatchesStale(h, old) ==
  IF old = NullRef THEN New(h, <<>>) ELSE [heap |-> h, ref |-> old]

\* line 55: const matches: number[] = []
NewMatches(h, old) == New(h, <<>>)

\* faulty variant of DegenerateInput: the empty pattern is not caught
DegenerateTextOnly(n, m) == n = 0

\* line 67: n === 0 || m === 0
DegenerateInput(n, m) == n = 0 \/ m = 0

\* lines 49-69: the locals, the init frame, the early return of an empty input
SearchBegin ==
  /\ tracer = "search"
  /\ pc = "start"
  /\ LET nb == New(heap, buildFailureTable(pattern))
         nm == NewMatches(nb.heap, matches)
         e0 == New(nm.heap, <<>>)
     IN  /\ b' = nb.ref
         /\ matches' = nm.ref
         /\ heap' = e0.heap
         /\ events' = << SearchFrame("init", 0, 0, e0.ref, <<"init">>) >>
  /\ i' = 0
  /\ j' = 0
  /\ pc' = IF DegenerateInput(Len(text), Len(pattern)) THEN "done" ELSE "loop"
  /\ UNCHANGED <<run, firstTrace, inputVars, widgetVars, filledUntil, sccVars>>

\* lines 72-93: one turn of the inner loop, a compare and a fallback frame
SearchMismatch ==
  /\ tracer = "search"
  /\ pc = "loop"
  /\ i < Len(text)
  /\ j >= 0
  /\ CharAt(text, i) # CharAt(pattern, j)
  /\ LET c1    == Snapshot(heap, matches)
         nextJ == At(heap[b], j)
         c2    == Snapshot(c1.heap, matches)
         f1    == SearchFrame("compare", i, j, c1.ref, <<"mismatch", i, j>>)
                    @@ [match |-> FALSE]
         f2    == SearchFrame("fallback", i, nextJ, c2.ref, <<"fallback", j, nextJ>>)
                    @@ [prevPatternIndex |-> j]
     IN  /\ events' = events \o <<f1, f2>>
         /\ heap' = c2.heap
         /\ j' = nextJ
  /\ UNCHANGED <<pc, run, firstTrace, inputVars, widgetVars, i, filledUntil, b, matches,
                 sccVars>>

\* lines 95-116: the optional compare frame of a match, then the advance frame
SearchAdvance ==
  /\ tracer = "search"
  /\ pc = "loop"
  /\ i < Len(text)
  /\ ~(j >= 0 /\ CharAt(text, i) # CharAt(pattern, j))
  /\ LET c1 == IF j >= 0 THEN Snapshot(heap, matches)
                         ELSE [heap |-> heap, ref |-> NullRef]
         f1 == IF j >= 0
                 THEN << SearchFrame("compare", i, j, c1.ref, <<"match", i, j>>)
                           @@ [match |-> TRUE] >>
                 ELSE <<>>
         c2 == Snapshot(c1.heap, matches)
         f2 == SearchFrame("advance", i + 1, j + 1, c2.ref, <<"advance", i + 1, j + 1>>)
     IN  /\ events' = events \o f1 \o <<f2>>
         /\ heap' = c2.heap
  /\ i' = i + 1
  /\ j' = j + 1
  /\ pc' = "check"
  /\ UNCHANGED <<run, firstTrace, inputVars, widgetVars, filledUntil, b, matches, sccVars>>

\* faulty variant of ResumeAfterMatch: the scan restarts from j = 0
ResumeAtZero(table, jj) == 0

\* line 129: const nextJ = b[j]
ResumeAfterMatch(table, jj) == At(table, jj)

\* faulty variant of MatchIndex: the index after the occurrence is reported
MatchIndexAtEnd(ii, jj) == ii

\* line 119: const matchIndex = i - j
MatchIndex(ii, jj) == ii - jj

\* lines 118-139: j === m, the match is recorded: a found and a fallback frame
SearchFound ==
  /\ tracer = "search"
  /\ pc = "check"
  /\ j = Len(pattern)
  /\ LET matchIndex == MatchIndex(i, j)
         h1    == [heap EXCEPT ![matches] = Append(@, matchIndex)]
         c1    == Snapshot(h1, matches)
         nextJ == ResumeAfterMatch(heap[b], j)
         c2    == Snapshot(c1.heap, matches)
         f1    == SearchFrame("found", i, j, c1.ref, <<"found", matchIndex>>)
                    @@ [matchIndex |-> matchIndex]
         f2    == SearchFrame("fallback", i, nextJ, c2.ref, <<"continue", j, nextJ>>)
                    @@ [prevPatternIndex |-> j]
     IN  /\ events' = events \o <<f1, f2>>
         /\ heap' = c2.heap
         /\ j' = nextJ
  /\ pc' = "loop"
  /\ UNCHANGED <<run, firstTrace, inputVars, widgetVars, i, filledUntil, b, matches, sccVars>>

\* line 118: j !== m, back to the test of the outer loop
SearchNoMatch ==
  /\ tracer = "search"
  /\ pc = "check"
  /\ j # Len(pattern)
  /\ pc' = "loop"
  /\ UNCHANGED <<run, firstTrace, heap, inputVars, widgetVars, kmpVars, sccVars>>

\* line 142: return { events, b }
SearchReturn ==
  /\ tracer = "search"
  /\ pc = "loop"
  /\ ~(i < Len(text))
  /\ pc' = "done"
  /\ UNCHANGED <<run, firstTrace, heap, inputVars, widgetVars, kmpVars, sccVars>>

\* a SearchEvent with the array it refers to read out of the heap
SearchView(h, f) == [f EXCEPT !.matches = h[f.matches]]

\* ------------------------------------------------------- buildFrames
RECURSIVE AdjacencyLoop(_, _, _)
\* lines 77-79: edges.forEach(([from, to]) => adj[from].push(to)); adj[from] is
\* undefined for a from outside [0, n) and the push throws a TypeError
AdjacencyLoop(a, edges, k) ==
  IF k > Len(edges) THEN [ok |-> TRUE, adj |-> a]
  ELSE LET from == edges[k][1]
           to   == edges[k][2]
       IN  IF from \notin 0..(Len(a) - 1)
             THEN [ok |-> FALSE, adj |-> a]
             ELSE AdjacencyLoop(Put(a, from, Append(At(a, from), to)), edges, k + 1)

RECURSIVE AdjacencyLoopLenient(_, _, _)
\* faulty variant of AdjacencyLoop: adj[from]?.push(to), a bad edge is dropped
AdjacencyLoopLenient(a, edges, k) ==
  IF k > Len(edges) THEN [ok |-> TRUE, adj |-> a]
  ELSE LET from == edges[k][1]
           to   == edges[k][2]
       IN  IF from \notin 0..(Len(a) - 1) \/ to \notin 0..(Len(a) - 1)
             THEN AdjacencyLoopLenient(a, edges, k + 1)
             ELSE AdjacencyLoopLenient(Put(a, from, Append(At(a, from), to)),
                                       edges, k + 1)

\* faulty variant of buildAdjacency
buildAdjacencyLenient(n, edges) ==
  AdjacencyLoopLenient([v \in 1..n |-> <<>>], edges, 1)

RECURSIVE WithoutRepeats(_)
\* a list with every repeated element dropped
WithoutRepeats(s) ==
  IF s = <<>> THEN <<>>
  ELSE LET front == WithoutRepeats(SubSeq(s, 1, Len(s) - 1))
       IN  IF \E k \in 1..Len(front) : front[k] = s[Len(s)]
             THEN front
             ELSE Append(front, s[Len(s)])

\* faulty variant of buildAdjacency: a neighbour is listed once, however many
\* edges lead to it
buildAdjacencyDistinct(n, edges) ==
  LET r == AdjacencyLoop([v \in 1..n |-> <<>>], edges, 1)
  IN  [ok |-> r.ok, adj |-> [v \in 1..n |-> WithoutRepeats(r.adj[v])]]

\* faulty variant of buildAdjacency: every adjacency list is sorted by node index
buildAdjacencySorted(n, edges) ==
  LET r == AdjacencyLoop([v \in 1..n |-> <<>>], edges, 1)
  IN  [ok  |-> r.ok,
       adj |-> [v \in 1..n |-> SortSeq(r.adj[v], LAMBDA x, y : x < y)]]

\* lines 75-81
buildAdjacency(n, edges) == AdjacencyLoop([v \in 1..n |-> <<>>], edges, 1)

\* faulty variant of reverseEdges: [to, to], the flipped edge loses its target
reverseEdgesToLoops(edges) ==
  [k \in 1..Len(edges) |-> <<edges[k][2], edges[k][2]>>]

\* lines 83-85
reverseEdges(edges) == [k \in 1..Len(edges) |-> <<edges[k][2], edges[k][1]>>]

\* line 124: preset.nodes[index] ?? `${index}`
label(idx) ==
  IF idx \in 0..(Len(preset.nodes) - 1) THEN At(preset.nodes, idx) ELSE idx

\* the variables pushFrame reads
Work ==
  [phase |-> phase, activeNode |-> activeNode, activeEdge |-> activeEdge,
   stack |-> stack, visited1 |-> visited1, finishOrder |-> finishOrder,
   visited2 |-> visited2, sccs |-> sccs, currentComponent |-> currentComponent,
   order |-> order, orderIndex |-> orderIndex]

\* lines 107-122: the copies are allocated in the order of the fields, stack,
\* visited1, finishOrder, visited2, the components of sccs and the list of
\* them (sccs.map((component) => [...component])), currentComponent, order
pushFrame(h, w, note) ==
  LET n0 == Len(h)
      k  == Len(h[w.sccs])
  IN  [heap  |-> h \o << h[w.stack], h[w.visited1], h[w.finishOrder],
                         h[w.visited2] >>
                   \o [x \in 1..k |-> h[h[w.sccs][x]]]
                   \o << [x \in 1..k |-> SpreadRef(h[w.sccs][x], n0 + 4 + x)],
                         h[w.currentComponent], h[w.order] >>,
       frame |-> [phase |-> w.phase, note |-> note, activeNode |-> w.activeNode,
                  activeEdge |-> w.activeEdge,
                  stack |-> SpreadRef(w.stack, n0 + 1),
                  visited1 |-> SpreadRef(w.visited1, n0 + 2),
                  finishOrder |-> SpreadRef(w.finishOrder, n0 + 3),
                  visited2 |-> SpreadRef(w.visited2, n0 + 4),
                  sccs |-> SpreadRef(w.sccs, n0 + k + 5),
                  currentComponent |-> SpreadRef(w.currentComponent, n0 + k + 6),
                  order |-> SpreadRef(w.order, n0 + k + 7),
                  orderIndex |-> w.orderIndex]]

\* lines 88-105: the adjacency lists (either may throw) and the locals
SccBegin ==
  /\ tracer = "scc"
  /\ pc = "start"
  /\ LET n  == Len(preset.nodes)
         a  == buildAdjacency(n, preset.edges)
         r  == buildAdjacency(n, reverseEdges(preset.edges))
         h1 == New(heap, [v \in 1..n |-> FALSE])
         h2 == New(h1.heap, [v \in 1..n |-> FALSE])
         h3 == New(h2.heap, <<>>)
         h4 == New(h3.heap, <<>>)
         h5 == New(h4.heap, <<>>)
         h6 == New(h5.heap, <<>>)
         h7 == New(h6.heap, <<>>)
     IN  IF ~a.ok \/ ~r.ok
           THEN /\ pc' = "failed"
                /\ UNCHANGED <<heap, i, sccVars>>
           ELSE /\ pc' = "p1loop"
                /\ adj' = a.adj
                /\ radj' = r.adj
                /\ visited1' = h1.ref
                /\ visited2' = h2.ref
                /\ finishOrder' = h3.ref
                /\ sccs' = h4.ref
                /\ currentComponent' = h5.ref
                /\ stack' = h6.ref
                /\ order' = h7.ref
                /\ heap' = h7.heap
                /\ phase' = "pass1"
                /\ activeNode' = NULL
                /\ activeEdge' = NullRef
                /\ orderIndex' = -1
                /\ frames' = <<>>
                /\ i' = 0
                /\ index' = 0
                /\ calls' = <<>>
  /\ UNCHANGED <<run, firstTrace, inputVars, widgetVars, j, filledUntil, b, matches, events>>

\* lines 149-150: node i was reached by an earlier DFS
Pass1Skip ==
  /\ tracer = "scc"
  /\ pc = "p1loop"
  /\ i < Len(preset.nodes)
  /\ At(heap[visited1], i)
  /\ i' = i + 1
  /\ UNCHANGED <<pc, run, firstTrace, heap, inputVars, widgetVars, j, filledUntil, b, matches,
                 events, sccVars>>

\* lines 150-154: the start frame and the call dfs1(i)
Pass1Start ==
  /\ tracer = "scc"
  /\ pc = "p1loop"
  /\ i < Len(preset.nodes)
  /\ ~At(heap[visited1], i)
  /\ LET w == [Work EXCEPT !.activeNode = i, !.activeEdge = NullRef]
         p == pushFrame(heap, w, <<"Pass 1: start DFS from", label(i)>>)
     IN  /\ heap' = p.heap
         /\ frames' = Append(frames, p.frame)
  /\ activeNode' = i
  /\ activeEdge' = NullRef
  /\ calls' = << [node |-> i, k |-> 0] >>
  /\ pc' = "d1enter"
  /\ UNCHANGED <<run, firstTrace, inputVars, widgetVars, kmpVars, adj, radj, visited1,
                 visited2, finishOrder, sccs, currentComponent, stack, phase,
                 order, orderIndex, index>>

\* lines 127-131: dfs1 is entered
Dfs1Visit ==
  /\ tracer = "scc"
  /\ pc = "d1enter"
  /\ LET node == Last(calls).node
         h1   == [heap EXCEPT ![visited1] = Put(@, node, TRUE),
                              ![stack] = Append(@, node)]
         w    == [Work EXCEPT !.activeNode = node, !.activeEdge = NullRef]
         p    == pushFrame(h1, w, <<"Pass 1: visit", label(node)>>)
     IN  /\ heap' = p.heap
         /\ frames' = Append(frames, p.frame)
         /\ activeNode' = node
  /\ activeEdge' = NullRef
  /\ pc' = "d1edges"
  /\ UNCHANGED <<run, firstTrace, inputVars, widgetVars, kmpVars, adj, radj, visited1,
                 visited2, finishOrder, sccs, currentComponent, stack, phase,
                 order, orderIndex, index, calls>>

\* faulty variant of Unvisited: the guard is dropped, every edge is followed
UnvisitedAlways(visited, next) == TRUE

\* lines 137 and 194: !visited1[next], !visited2[next]
Unvisited(visited, next) == ~At(visited, next)

\* lines 133-140: one turn of adj[node].forEach
Dfs1Edge ==
  /\ tracer = "scc"
  /\ pc = "d1edges"
  /\ Last(calls).k < Len(At(adj, Last(calls).node))
  /\ LET top  == Last(calls)
         node == top.node
         next == At(At(adj, node), top.k)
         e    == New(heap, <<node, next>>)
         w    == [Work EXCEPT !.activeNode = node, !.activeEdge = e.ref]
         p    == pushFrame(e.heap, w,
                           <<"Pass 1: follow edge", label(node), label(next)>>)
         rest == [calls EXCEPT ![Len(calls)].k = top.k + 1]
     IN  /\ heap' = p.heap
         /\ frames' = Append(frames, p.frame)
         /\ activeNode' = node
         /\ activeEdge' = e.ref
         /\ IF Unvisited(heap[visited1], next)
              THEN /\ calls' = Append(rest, [node |-> next, k |-> 0])
                   /\ pc' = "d1enter"
              ELSE /\ calls' = rest
                   /\ pc' = "d1edges"
  /\ UNCHANGED <<run, firstTrace, inputVars, widgetVars, kmpVars, adj, radj, visited1,
                 visited2, finishOrder, sccs, currentComponent, stack, phase,
                 order, orderIndex, index>>

\* faulty variant of Pop: the node stays on the stack
PopNothing(s) == s

\* lines 142 and 199: stack.pop()
Pop(s) == SubSeq(s, 1, Len(s) - 1)

\* faulty variant of PushFinished: the node is put in front (unshift)
PushFinishedInFront(fo, node) == <<node>> \o fo

\* line 143: finishOrder.push(node)
PushFinished(fo, node) == Append(fo, node)

\* lines 142-147: the adjacency list is exhausted, dfs1 returns; a return to
\* the for loop of line 149 is followed by its i += 1
Dfs1Finish ==
  /\ tracer = "scc"
  /\ pc = "d1edges"
  /\ ~(Last(calls).k < Len(At(adj, Last(calls).node)))
  /\ LET node == Last(calls).node
         h1   == [heap EXCEPT ![stack] = Pop(@),
                              ![finishOrder] = PushFinished(@, node)]
         w    == [Work EXCEPT !.activeNode = node, !.activeEdge = NullRef]
         p    == pushFrame(h1, w, <<"Pass 1: finish", label(node)>>)
     IN  /\ heap' = p.heap
         /\ frames' = Append(frames, p.frame)
         /\ activeNode' = node
  /\ activeEdge' = NullRef
  /\ calls' = SubSeq(calls, 1, Len(calls) - 1)
  /\ IF Len(calls) = 1
       THEN pc' = "p1loop" /\ i' = i + 1
       ELSE pc' = "d1edges" /\ i' = i
  /\ UNCHANGED <<run, firstTrace, inputVars, widgetVars, j, filledUntil, b, matches, events,
                 adj, radj, visited1, visited2, finishOrder, sccs,
                 currentComponent, stack, phase, order, orderIndex, index>>

\* faulty variant of ProcessingOrder: the finish order is not reversed
ProcessingOrderUnreversed(fo) == fo

\* line 159: [...finishOrder].reverse()
ProcessingOrder(fo) == Reverse(fo)

\* faulty variant of PhaseAfterPassOne: the frame is marked pass2 already
PhaseAfterPassOneSkipped == "pass2"

\* line 158: phase = "reverse"
PhaseAfterPassOne == "reverse"

\* lines 158-166: the for loop has ended; the reverse frame, then phase pass2
ReversePhase ==
  /\ tracer = "scc"
  /\ pc = "p1loop"
  /\ ~(i < Len(preset.nodes))
  /\ LET o == New(heap, ProcessingOrder(heap[finishOrder]))
         s == New(o.heap, <<>>)
         w == [Work EXCEPT !.phase = PhaseAfterPassOne, !.order = o.ref, !.stack = s.ref,
                           !.activeNode = NULL, !.activeEdge = NullRef,
                           !.orderIndex = -1]
         p == pushFrame(s.heap, w,
                <<"Reverse graph and process nodes by finish order",
                  [x \in 1..Len(s.heap[o.ref]) |-> label(s.heap[o.ref][x])]>>)
     IN  /\ heap' = p.heap
         /\ frames' = Append(frames, p.frame)
         /\ order' = o.ref
         /\ stack' = s.ref
  /\ phase' = "pass2"
  /\ activeNode' = NULL
  /\ activeEdge' = NullRef
  /\ orderIndex' = -1
  /\ index' = 0
  /\ pc' = "p2loop"
  /\ UNCHANGED <<run, firstTrace, inputVars, widgetVars, kmpVars, adj, radj, visited1,
                 visited2, finishOrder, sccs, currentComponent, calls>>

\* faulty variant of Pass2Skip: the entry is passed over without a frame
Pass2SkipSilently ==
  /\ tracer = "scc"
  /\ pc = "p2loop"
  /\ index < Len(heap[order])
  /\ At(heap[visited2], At(heap[order], index))
  /\ activeNode' = At(heap[order], index)
  /\ orderIndex' = index
  /\ activeEdge' = NullRef
  /\ index' = index + 1
  /\ UNCHANGED <<pc, run, firstTrace, heap, inputVars, widgetVars, kmpVars, adj, radj,
                 visited1, visited2, finishOrder, sccs, currentComponent, stack,
                 phase, order, frames, calls>>

\* lines 168-173: the node already belongs to a component
Pass2Skip ==
  /\ tracer = "scc"
  /\ pc = "p2loop"
  /\ index < Len(heap[order])
  /\ At(heap[visited2], At(heap[order], index))
  /\ LET node == At(heap[order], index)
         w    == [Work EXCEPT !.orderIndex = index, !.activeNode = node,
                              !.activeEdge = NullRef]
         p    == pushFrame(heap, w, <<"Pass 2: already assigned, skip", label(node)>>)
     IN  /\ heap' = p.heap
         /\ frames' = Append(frames, p.frame)
         /\ activeNode' = node
  /\ orderIndex' = index
  /\ activeEdge' = NullRef
  /\ index' = index + 1
  /\ UNCHANGED <<pc, run, firstTrace, inputVars, widgetVars, kmpVars, adj, radj, visited1,
                 visited2, finishOrder, sccs, currentComponent, stack, phase,
                 order, calls>>

\* lines 168-180 and 205: a new component is started and dfs2(node) called
Pass2Start ==
  /\ tracer = "scc"
  /\ pc = "p2loop"
  /\ index < Len(heap[order])
  /\ ~At(heap[visited2], At(heap[order], index))
  /\ LET node == At(heap[order], index)
         c    == New(heap, <<>>)
         s    == New(c.heap, <<>>)
         w    == [Work EXCEPT !.orderIndex = index, !.currentComponent = c.ref,
                              !.stack = s.ref, !.activeNode = node,
                              !.activeEdge = NullRef]
         p    == pushFrame(s.heap, w, <<"Pass 2: start new SCC from", label(node)>>)
     IN  /\ heap' = p.heap
         /\ frames' = Append(frames, p.frame)
         /\ currentComponent' = c.ref
         /\ stack' = s.ref
         /\ activeNode' = node
         /\ calls' = << [node |-> node, k |-> 0] >>
  /\ orderIndex' = index
  /\ activeEdge' = NullRef
  /\ pc' = "d2enter"
  /\ UNCHANGED <<run, firstTrace, inputVars, widgetVars, kmpVars, adj, radj, visited1,
                 visited2, finishOrder, sccs, phase, order, index>>

\* lines 183-188: dfs2 is entered
Dfs2Visit ==
  /\ tracer = "scc"
  /\ pc = "d2enter"
  /\ LET start == Last(calls).node
         h1    == [heap EXCEPT ![visited2] = Put(@, start, TRUE),
                               ![currentComponent] = Append(@, start),
                               ![stack] = Append(@, start)]
         w     == [Work EXCEPT !.activeNode = start, !.activeEdge = NullRef]
         p     == pushFrame(h1, w, <<"Pass 2: add to current SCC", label(start)>>)
     IN  /\ heap' = p.heap
         /\ frames' = Append(frames, p.frame)
         /\ activeNode' = start
  /\ activeEdge' = NullRef
  /\ pc' = "d2edges"
  /\ UNCHANGED <<run, firstTrace, inputVars, widgetVars, kmpVars, adj, radj, visited1,
                 visited2, finishOrder, sccs, currentComponent, stack, phase,
                 order, orderIndex, index, calls>>

\* lines 190-197: one turn of radj[start].forEach
Dfs2Edge ==
  /\ tracer = "scc"
  /\ pc = "d2edges"
  /\ Last(calls).k < Len(At(radj, Last(calls).node))
  /\ LET top   == Last(calls)
         start == top.node
         next  == At(At(radj, start), top.k)
         e     == New(heap, <<start, next>>)
         w     == [Work EXCEPT !.activeNode = start, !.activeEdge = e.ref]
         p     == pushFrame(e.heap, w,
                    <<"Pass 2: follow reversed edge", label(start), label(next)>>)
         rest  == [calls EXCEPT ![Len(calls)].k = top.k + 1]
     IN  /\ heap' = p.heap
         /\ frames' = Append(frames, p.frame)
         /\ activeNode' = start
         /\ activeEdge' = e.ref
         /\ IF Unvisited(heap[visited2], next)
              THEN /\ calls' = Append(rest, [node |-> next, k |-> 0])
                   /\ pc' = "d2enter"
              ELSE /\ calls' = rest
                   /\ pc' = "d2edges"
  /\ UNCHANGED <<run, firstTrace, inputVars, widgetVars, kmpVars, adj, radj, visited1,
                 visited2, finishOrder, sccs, currentComponent, stack, phase,
                 order, orderIndex, index>>

\* lines 199-203: the reversed adjacency list is exhausted, dfs2 returns
Dfs2Finish ==
  /\ tracer = "scc"
  /\ pc = "d2edges"
  /\ ~(Last(calls).k < Len(At(radj, Last(calls).node)))
  /\ LET start == Last(calls).node
         h1    == [heap EXCEPT ![stack] = Pop(@)]
         w     == [Work EXCEPT !.activeNode = start, !.activeEdge = NullRef]
         p     == pushFrame(h1, w, <<"Pass 2: finish in this SCC", label(start)>>)
     IN  /\ heap' = p.heap
         /\ frames' = Append(frames, p.frame)
         /\ activeNode' = start
  /\ activeEdge' = NullRef
  /\ calls' = SubSeq(calls, 1, Len(calls) - 1)
  /\ pc' = IF Len(calls) = 1 THEN "p2complete" ELSE "d2edges"
  /\ UNCHANGED <<run, firstTrace, inputVars, widgetVars, kmpVars, adj, radj, visited1,
                 visited2, finishOrder, sccs, currentComponent, stack, phase,
                 order, orderIndex, index>>

\* lines 206-213: the component is appended to sccs; the complete frame
Pass2Complete ==
  /\ tracer = "scc"
  /\ pc = "p2complete"
  /\ LET node == At(heap[order], index)
         c    == Snapshot(heap, currentComponent)
         h1   == [c.heap EXCEPT ![sccs] = Append(@, c.ref)]
         s    == New(h1, <<>>)
         w    == [Work EXCEPT !.stack = s.ref, !.activeNode = node,
                              !.activeEdge = NullRef]
         p    == pushFrame(s.heap, w,
                   <<"Pass 2: complete SCC", Len(h1[sccs]),
                     [x \in 1..Len(heap[currentComponent]) |->
                        label(heap[currentComponent][x])]>>)
     IN  /\ heap' = p.heap
         /\ frames' = Append(frames, p.frame)
         /\ stack' = s.ref
         /\ activeNode' = node
  /\ activeEdge' = NullRef
  /\ index' = index + 1
  /\ pc' = "p2loop"
  /\ UNCHANGED <<run, firstTrace, inputVars, widgetVars, kmpVars, adj, radj, visited1,
                 visited2, finishOrder, sccs, currentComponent, phase, order,
                 orderIndex, calls>>

\* lines 215-222: order.forEach has ended; the done frame and the return
SccReturn ==
  /\ tracer = "scc"
  /\ pc = "p2loop"
  /\ ~(index < Len(heap[order]))
  /\ LET s == New(heap, <<>>)
         w == [Work EXCEPT !.phase = "done", !.activeNode = NULL,
                           !.activeEdge = NullRef, !.stack = s.ref,
                           !.orderIndex = Len(heap[order]) - 1]
         p == pushFrame(s.heap, w, <<"All SCCs discovered. Total", Len(heap[sccs])>>)
     IN  /\ heap' = p.heap
         /\ frames' = Append(frames, p.frame)
         /\ stack' = s.ref
  /\ phase' = "done"
  /\ activeNode' = NULL
  /\ activeEdge' = NullRef
  /\ orderIndex' = Len(heap[order]) - 1
  /\ pc' = "done"
  /\ UNCHANGED <<run, firstTrace, inputVars, widgetVars, kmpVars, adj, radj, visited1,
                 visited2, finishOrder, sccs, currentComponent, order, index,
                 calls>>

\* a Frame with every array it refers to read out of the heap
FrameView(h, f) ==
  [f EXCEPT !.stack = h[f.stack], !.visited1 = h[f.visited1],
            !.finishOrder = h[f.finishOrder], !.visited2 = h[f.visited2],
            !.sccs = [x \in 1..Len(h[f.sccs]) |-> h[h[f.sccs][x]]],
            !.currentComponent = h[f.currentComponent], !.order = h[f.order],
            !.activeEdge = IF f.activeEdge = NullRef THEN <<>> ELSE h[f.activeEdge]]

\* lines 626-629 of the widget: a frame with a non-empty currentComponent is
\* rendered with the entry "SCC #k (in progress)", k = sccs.length + 1
InProgressShown(h, f) == Len(h[f.currentComponent]) > 0

InProgressNumber(h, f) == Len(h[f.sccs]) + 1

\* ------------------------------------------------------------ the callers
\* the trace the running builder has pushed so far, by value
TraceView ==
  CASE tracer = "failure" -> [x \in 1..Len(events) |-> FailureView(heap, events[x])]
    [] tracer = "search"  -> [x \in 1..Len(events) |-> SearchView(heap, events[x])]
    [] tracer = "scc"     -> [x \in 1..Len(frames) |-> FrameView(heap, frames[x])]

\* useMemo(() => build...(input), [input]): the component calls the builder
\* again when the same input comes back; the first result is kept for comparison
Rerun ==
  /\ pc = "done"
  /\ run = 1
  /\ run' = 2
  /\ firstTrace' = TraceView
  /\ pc' = "start"
  /\ UNCHANGED <<heap, inputVars, widgetVars, kmpVars, sccVars>>

\* ----------------------------------------------------------------- inputs
NodeLabels == <<"A", "B", "C", "D", "E", "F", "G", "H">>

NoPreset == [nodes |-> <<>>, edges |-> <<>>]

\* a graph of n nodes; endpoints one below and one above the node range are
\* offered too
Graph(n, es) == [nodes |-> SubSeq(NodeLabels, 1, n), edges |-> es]

EdgeLists(n, k) == [1..k -> (-1..n) \X (-1..n)]

\* the builders' locals before the first statement of a call
InitLocals ==
  /\ pc = "start"
  /\ run = 1
  /\ firstTrace = <<>>
  /\ heap = <<>>
  /\ i = 0
  /\ j = 0
  /\ filledUntil = 0
  /\ b = NullRef
  /\ matches = NullRef
  /\ events = <<>>
  /\ adj = <<>>
  /\ radj = <<>>
  /\ visited1 = NullRef
  /\ visited2 = NullRef
  /\ finishOrder = NullRef
  /\ sccs = NullRef
  /\ currentComponent = NullRef
  /\ stack = NullRef
  /\ phase = "pass1"
  /\ activeNode = NULL
  /\ activeEdge = NullRef
  /\ order = NullRef
  /\ orderIndex = -1
  /\ frames = <<>>
  /\ index = 0
  /\ calls = <<>>

\* useState(0), and no effect has run yet
InitStep ==
  /\ stepIndex = 0
  /\ lengthDep = -1
  /\ presetDep = NoPreset
  /\ lastEvent = "mount"

Init ==
  /\ tracer \in {"failure", "search", "scc"}
  /\ \/ /\ tracer = "failure"
        /\ \/ \E k \in 0..MaxPattern : pattern \in [1..k -> Alphabet]
           \/ pattern = DEFAULT_PATTERN
        /\ text = <<>>
        /\ preset = NoPreset
     \/ /\ tracer = "search"
        /\ \/ \E n \in 0..MaxText, m \in 0..MaxSearchPattern :
                /\ text \in [1..n -> Alphabet]
                /\ pattern \in [1..m -> Alphabet]
           \/ text = DEFAULT_TEXT /\ pattern = DEFAULT_PATTERN
        /\ preset = NoPreset
     \/ /\ tracer = "scc"
        /\ \/ \E n \in 0..MaxNodes, k \in 0..MaxEdges :
                \E es \in EdgeLists(n, k) : preset = Graph(n, es)
           \/ \E x \in 1..Len(PRESETS) : preset = PRESETS[x]
        /\ text = <<>>
        /\ pattern = <<>>
  /\ InitLocals
  /\ InitStep

NextFailure == FailureBegin \/ FailureMismatch \/ FailureSet \/ FailureReturn

NextSearch ==
  \/ SearchBegin
  \/ SearchMismatch
  \/ SearchAdvance
  \/ SearchFound
  \/ SearchNoMatch
  \/ SearchReturn

NextScc ==
  \/ SccBegin
  \/ Pass1Skip
  \/ Pass1Start
  \/ Dfs1Visit
  \/ Dfs1Edge
  \/ Dfs1Finish
  \/ ReversePhase
  \/ Pass2Skip
  \/ Pass2Start
  \/ Dfs2Visit
  \/ Dfs2Edge
  \/ Dfs2Finish
  \/ Pass2Complete
  \/ SccReturn

\* ------------------------------------------------------------ the widgets
\* One model serves the three components: tracer says which one is mounted.
\* A state with pc = "done" is a committed render: useMemo has produced the
\* trace of the current input and the effects of that render may still be due.
MAX_TEXT == 24

MAX_PATTERN == 12

\* the longest value typed into an input
MaxTyped == 2

Least(x, y) == IF x <= y THEN x ELSE y

Greatest(x, y) == IF x >= y THEN x ELSE y

\* A faulty variant of clamp: the value is returned as it came.
clampNothing(value, min, max) == value

clamp(value, min, max) == Least(max, Greatest(min, value))

\* value.replace(/[\r\n\t]/g, " ").slice(0, maxLength)
sanitizeInput(value, maxLength) ==
  LET replaced == [k \in 1..Len(value) |->
                     IF value[k] \in {"\r", "\n", "\t"} THEN " " ELSE value[k]]
  IN  SubSeq(replaced, 1, Least(Len(replaced), maxLength))

sanitizePattern(value) == sanitizeInput(value, MAX_PATTERN)

\* what can be typed: the letters of the alphabet and a tab
Typed == UNION {[1..k -> Alphabet \cup {"\t"}] : k \in 0..MaxTyped}

builderVars == <<pc, run, firstTrace, heap, kmpVars, sccVars>>

\* events.length / frames.length of the render
traceLength == IF tracer = "scc" THEN Len(frames) ELSE Len(events)

\* const active = events[stepIndex];  const frame = frames[stepIndex] ?? frames[0];
ActiveIndex ==
  IF tracer = "scc" /\ stepIndex \notin 0..(Len(frames) - 1) THEN 0 ELSE stepIndex

\* useEffect(() => setStepIndex(0), [presetId])
ResetEffectDue == tracer = "scc" /\ presetDep # preset

\* useEffect(() => setStepIndex((c) => clamp(c, 0, Math.max(length - 1, 0))), [length])
ClampEffectDue == lengthDep # traceLength

EffectsPending == pc = "done" /\ (ResetEffectDue \/ ClampEffectDue)

\* the effects of one commit run in the order of their declaration and their
\* updates are applied in that order in the render that follows
RunEffects ==
  /\ EffectsPending
  /\ LET afterReset == IF ResetEffectDue THEN 0 ELSE stepIndex
     IN  stepIndex' = IF ClampEffectDue
                        THEN clamp(afterReset, 0, Greatest(traceLength - 1, 0))
                        ELSE afterReset
  /\ lengthDep' = traceLength
  /\ presetDep' = IF tracer = "scc" THEN preset ELSE presetDep
  /\ UNCHANGED <<builderVars, inputVars, lastEvent>>

\* a handler runs on a committed render whose effects have run
Settled == pc = "done" /\ ~EffectsPending

\* useMemo calls the builder again when its dependency changed
Remount(changed) ==
  IF changed
    THEN /\ pc' = "start"
         /\ run' = 1
         /\ firstTrace' = <<>>
         /\ heap' = <<>>
         /\ i' = 0
         /\ j' = 0
         /\ filledUntil' = 0
         /\ b' = NullRef
         /\ matches' = NullRef
         /\ events' = <<>>
         /\ adj' = <<>>
         /\ radj' = <<>>
         /\ visited1' = NullRef
         /\ visited2' = NullRef
         /\ finishOrder' = NullRef
         /\ sccs' = NullRef
         /\ currentComponent' = NullRef
         /\ stack' = NullRef
         /\ phase' = "pass1"
         /\ activeNode' = NULL
         /\ activeEdge' = NullRef
         /\ order' = NullRef
         /\ orderIndex' = -1
         /\ frames' = <<>>
         /\ index' = 0
         /\ calls' = <<>>
    ELSE UNCHANGED builderVars

\* onClick of Prev; the button is disabled at step 0, the handler clamps too
WidgetPrev ==
  /\ Settled
  /\ stepIndex' = clamp(stepIndex - 1, 0, traceLength - 1)
  /\ lastEvent' = "prev"
  /\ UNCHANGED <<builderVars, inputVars, lengthDep, presetDep>>

\* onClick of Next; the button is disabled at the last step
WidgetNext ==
  /\ Settled
  /\ stepIndex' = clamp(stepIndex + 1, 0, traceLength - 1)
  /\ lastEvent' = "next"
  /\ UNCHANGED <<builderVars, inputVars, lengthDep, presetDep>>

\* onChange of the range input: min 0, max Math.max(length - 1, 0)
WidgetSeek ==
  /\ Settled
  /\ \E value \in 0..Greatest(traceLength - 1, 0) : stepIndex' = value
  /\ lastEvent' = "seek"
  /\ UNCHANGED <<builderVars, inputVars, lengthDep, presetDep>>

\* KmpFailureTableDemo: onChange of the pattern input
FailurePatternInput ==
  /\ Settled
  /\ tracer = "failure"
  /\ \E value \in Typed :
       /\ pattern' = sanitizePattern(value)
       /\ Remount(sanitizePattern(value) # pattern)
  /\ stepIndex' = 0
  /\ lastEvent' = "input"
  /\ UNCHANGED <<tracer, text, preset, lengthDep, presetDep>>

\* KmpSearchDemo: onChange of the text input
SearchTextInput ==
  /\ Settled
  /\ tracer = "search"
  /\ \E value \in Typed :
       /\ text' = sanitizeInput(value, MAX_TEXT)
       /\ Remount(sanitizeInput(value, MAX_TEXT) # text)
  /\ stepIndex' = 0
  /\ lastEvent' = "input"
  /\ UNCHANGED <<tracer, pattern, preset, lengthDep, presetDep>>

\* KmpSearchDemo: onChange of the pattern input
SearchPatternInput ==
  /\ Settled
  /\ tracer = "search"
  /\ \E value \in Typed :
       /\ pattern' = sanitizeInput(value, MAX_PATTERN)
       /\ Remount(sanitizeInput(value, MAX_PATTERN) # pattern)
  /\ stepIndex' = 0
  /\ lastEvent' = "input"
  /\ UNCHANGED <<tracer, text, preset, lengthDep, presetDep>>

\* handleReset of the two KMP widgets
KmpReset ==
  /\ Settled
  /\ \/ /\ tracer = "failure"
        /\ pattern' = DEFAULT_PATTERN
        /\ text' = text
        /\ Remount(pattern # DEFAULT_PATTERN)
     \/ /\ tracer = "search"
        /\ text' = DEFAULT_TEXT
        /\ pattern' = DEFAULT_PATTERN
        /\ Remount(text # DEFAULT_TEXT \/ pattern # DEFAULT_PATTERN)
  /\ stepIndex' = 0
  /\ lastEvent' = "reset"
  /\ UNCHANGED <<tracer, preset, lengthDep, presetDep>>

\* the SCC widget: onChange of the preset select, fired when another option is
\* chosen, sets presetId and nothing else
SccPresetInput ==
  /\ Settled
  /\ tracer = "scc"
  /\ \E x \in 1..Len(PRESETS) :
       /\ PRESETS[x] # preset
       /\ preset' = PRESETS[x]
       /\ Remount(TRUE)
  /\ lastEvent' = "preset"
  /\ UNCHANGED <<tracer, text, pattern, stepIndex, lengthDep, presetDep>>

\* the SCC widget: onClick of Reset
SccReset ==
  /\ Settled
  /\ tracer = "scc"
  /\ stepIndex' = 0
  /\ lastEvent' = "reset"
  /\ UNCHANGED <<builderVars, inputVars, lengthDep, presetDep>>

\* the components as they mount: useState(DEFAULT_...), useState(PRESETS[0].id)
InitWidget ==
  /\ tracer \in {"failure", "search", "scc"}
  /\ \/ /\ tracer = "failure"
        /\ pattern = DEFAULT_PATTERN
        /\ text = <<>>
        /\ preset = NoPreset
     \/ /\ tracer = "search"
        /\ text = DEFAULT_TEXT
        /\ pattern = DEFAULT_PATTERN
        /\ preset = NoPreset
     \/ /\ tracer = "scc"
        /\ preset = PRESETS[1]
        /\ text = <<>>
        /\ pattern = <<>>
  /\ InitLocals
  /\ InitStep

NextWidget ==
  \/ NextFailure
  \/ NextSearch
  \/ NextScc
  \/ RunEffects
  \/ WidgetPrev
  \/ WidgetNext
  \/ WidgetSeek
  \/ FailurePatternInput
  \/ SearchTextInput
  \/ SearchPatternInput
  \/ KmpReset
  \/ SccPresetInput
  \/ SccReset

SpecWidget == InitWidget /\ [][NextWidget]_vars

Next == NextFailure \/ NextSearch \/ NextScc \/ Rerun

Spec == Init /\ [][Next]_vars

\* ================================================================ claims
FailureDone == tracer = "failure" /\ pc = "done"

SearchDone == tracer = "search" /\ pc = "done"

SccDone == tracer = "scc" /\ pc = "done"

\* the table carried by the last frame of buildFailureEvents
FinalTable == heap[Last(events).b]

\* the match list carried by the last frame of buildSearchEvents
FinalMatches == heap[Last(events).matches]

\* the component list carried by the last frame of buildFrames
FinalSccs == FrameView(heap, Last(frames)).sccs

\* k is the length of a proper border of the length-n prefix of p
IsBorder(p, n, k) == k < n /\ SubSeq(p, 1, k) = SubSeq(p, n - k + 1, n)

LongestBorder(p, n) ==
  CHOOSE k \in 0..(n - 1) :
    IsBorder(p, n, k) /\ \A k2 \in 0..(n - 1) : IsBorder(p, n, k2) => k2 <= k

\* C1: for every pattern the table of the last frame of buildFailureEvents has
\* length len(p)+1, entry 0 is -1 and entry n (1 <= n <= len(p)) is the length
\* of the longest proper border of the length-n prefix of p.
C1_FinalTableIsBorderTable ==
  FailureDone =>
    /\ Len(FinalTable) = Len(pattern) + 1
    /\ At(FinalTable, 0) = -1
    /\ \A n \in 1..Len(pattern) : At(FinalTable, n) = LongestBorder(pattern, n)

C1_Witness ==
  /\ FailureDone
  /\ pattern = DEFAULT_PATTERN
  /\ FinalTable = <<-1, 0, 0, 1, 2, 0>>

\* the start indices at which pattern p occurs in text t
Occurrences(t, p) ==
  {idx \in 0..(Len(t) - Len(p)) : SubSeq(t, idx + 1, idx + Len(p)) = p}

\* C2: for every text and non-empty pattern the match list of the last frame
\* of buildSearchEvents lists only occurrences, lists every occurrence
\* (overlapping ones too) exactly once, and is strictly ascending.
C2_MatchesAreTheOccurrences ==
  (SearchDone /\ pattern # <<>>) =>
    LET ms == FinalMatches
    IN  /\ \A x \in 1..Len(ms) : ms[x] \in Occurrences(text, pattern)
        /\ \A o \in Occurrences(text, pattern) :
             Cardinality({x \in 1..Len(ms) : ms[x] = o}) = 1
        /\ \A x \in 1..(Len(ms) - 1) : ms[x] < ms[x + 1]

C2_Witness ==
  /\ SearchDone
  /\ text = <<"A", "A", "A", "A">>
  /\ pattern = <<"A", "A">>
  /\ FinalMatches = <<0, 1, 2>>

Nodes == 0..(Len(preset.nodes) - 1)

EdgesInRange ==
  \A k \in 1..Len(preset.edges) :
    preset.edges[k][1] \in Nodes /\ preset.edges[k][2] \in Nodes

RECURSIVE ReachableFrom(_)
\* the nodes reachable from a node of S along forward edges (S itself included)
ReachableFrom(S) ==
  LET T == S \cup {preset.edges[k][2] :
                     k \in {x \in 1..Len(preset.edges) : preset.edges[x][1] \in S}}
  IN  IF T = S THEN S ELSE ReachableFrom(T)

MutuallyReachable(u, v) == v \in ReachableFrom({u}) /\ u \in ReachableFrom({v})

\* the places <<component, position>> at which node v is listed in cs
PlacesOf(cs, v) ==
  {pl \in (1..Len(cs)) \X (0..Len(preset.nodes)) :
     pl[2] \in 1..Len(cs[pl[1]]) /\ cs[pl[1]][pl[2]] = v}

SameComponent(cs, u, v) ==
  \E x \in 1..Len(cs) : \E y, z \in 1..Len(cs[x]) : cs[x][y] = u /\ cs[x][z] = v

\* C3: for every graph with in-range edges the sccs of the last frame of
\* buildFrames is a partition of the nodes (every node in exactly one
\* component), and two nodes share a component exactly when each is reachable
\* from the other along forward edges.
C3_SccsAreMutualReachabilityClasses ==
  SccDone =>
    LET cs == FinalSccs
    IN  /\ \A x \in 1..Len(cs) : \A y \in 1..Len(cs[x]) : cs[x][y] \in Nodes
        /\ \A x \in 1..Len(cs) : Len(cs[x]) <= Len(preset.nodes)
        /\ \A v \in Nodes : Cardinality(PlacesOf(cs, v)) = 1
        /\ \A u, v \in Nodes : SameComponent(cs, u, v) <=> MutuallyReachable(u, v)

C3_Witness ==
  /\ SccDone
  /\ preset = PRESETS[2]
  /\ Len(FinalSccs) = 3
  /\ SameComponent(FinalSccs, 3, 4)
  /\ ~SameComponent(FinalSccs, 2, 3)

\* ---------------------------------------------------------------- C4, C5
Range(s) == {s[x] : x \in 1..Len(s)}

\* the frames pushed by the running builder
Trace == IF tracer = "scc" THEN frames ELSE events

\* an invocation is under way or has returned its trace
Running == pc \notin {"start", "failed"}

\* the arrays a frame holds copies of: b, matches; stack, visited1, visited2,
\* finishOrder, sccs and each component in it, currentComponent, order
CollectionRefs(f) ==
  CASE tracer = "failure" -> {f.b}
    [] tracer = "search"  -> {f.matches}
    [] tracer = "scc"     ->
         {f.stack, f.visited1, f.finishOrder, f.visited2, f.sccs,
          f.currentComponent, f.order} \cup Range(heap[f.sccs])

\* the number of array-valued places of a frame, activeEdge aside
CollectionCount(f) == IF tracer = "scc" THEN 7 + Len(heap[f.sccs]) ELSE 1

\* the pair a frame's activeEdge refers to, if any
EdgeRefs(f) ==
  IF tracer = "scc" /\ f.activeEdge # NullRef THEN {f.activeEdge} ELSE {}

\* the arrays the builder's own variables refer to
WorkingRefs ==
  CASE tracer = "failure" -> {b}
    [] tracer = "search"  -> {b, matches}
    [] tracer = "scc"     ->
         ({stack, visited1, visited2, finishOrder, sccs, currentComponent,
           order, activeEdge} \cup Range(heap[sccs])) \ {NullRef}

RECURSIVE PlacesUpTo(_)
\* the number of array-valued places of the first n frames
PlacesUpTo(n) ==
  IF n = 0 THEN 0
  ELSE PlacesUpTo(n - 1) + CollectionCount(Trace[n])
         + Cardinality(EdgeRefs(Trace[n]))

\* no array is referred to from two places of the trace
NoArrayInTwoFrames ==
  Cardinality(UNION {CollectionRefs(Trace[x]) \cup EdgeRefs(Trace[x]) :
                       x \in 1..Len(Trace)})
    = PlacesUpTo(Len(Trace))

View(h, f) ==
  CASE tracer = "failure" -> FailureView(h, f)
    [] tracer = "search"  -> SearchView(h, f)
    [] tracer = "scc"     -> FrameView(h, f)

\* a step of an invocation leaves every frame pushed so far as it was
FramesKept ==
  pc # "start" =>
    \A x \in 1..Len(Trace) :
      /\ x <= Len(Trace')
      /\ View(heap', Trace'[x]) = View(heap, Trace[x])

\* C4 as stated: no later step changes a pushed frame, and every collection of
\* a frame, activeEdge included, is a copy that shares no storage with the
\* builder's variables or with another frame.
C4_FramesShareNothing ==
  /\ [](Running =>
          /\ NoArrayInTwoFrames
          /\ \A x \in 1..Len(Trace) :
               (CollectionRefs(Trace[x]) \cup EdgeRefs(Trace[x]))
                 \cap WorkingRefs = {})
  /\ [][FramesKept]_vars

\* C4 amended: no later step changes a pushed frame; b, matches, stack,
\* visited1, visited2, finishOrder, sccs and its components, currentComponent
\* and order are copies sharing no storage with the builder's variables or
\* with another frame; activeEdge is the builder's own pair, held by no other
\* frame (the builder replaces the pair, it never writes into it).
C4_FramesAreSnapshots ==
  /\ [](Running =>
          /\ NoArrayInTwoFrames
          /\ \A x \in 1..Len(Trace) :
               CollectionRefs(Trace[x]) \cap WorkingRefs = {})
  /\ [][FramesKept]_vars

\* a pass-1 edge frame has been pushed and later steps have changed the stack,
\* the visited flags and the finish order it was copied from
C4_Witness ==
  /\ tracer = "scc"
  /\ pc = "done"
  /\ \E x \in 1..Len(frames) :
       /\ frames[x].activeEdge # NullRef
       /\ frames[x].phase = "pass1"
       /\ heap[frames[x].stack] # heap[stack]
       /\ heap[frames[x].finishOrder] # heap[finishOrder]
       /\ heap[frames[x].visited2] # heap[visited2]

\* C5: a second invocation on the same input returns a trace of the same
\* length whose frames equal, field by field, those of the first.
C5_RerunGivesSameTrace ==
  (pc = "done" /\ run = 2) =>
    /\ Len(TraceView) = Len(firstTrace)
    /\ \A x \in 1..Len(firstTrace) : TraceView[x] = firstTrace[x]

C5_Witness ==
  /\ pc = "done"
  /\ run = 2
  /\ tracer = "search"
  /\ Len(firstTrace) > 1
  /\ FinalMatches # <<>>

\* --------------------------------------------------------------- C6 - C10
\* C6: an edge list with an endpoint outside [0, n) makes buildFrames fail at
\* once (the TypeError of adj[from].push, raised for the edge or for its
\* reversal), before any frame or local array exists; an edge list whose
\* endpoints are all in range is never rejected.
C6_InvalidEdgeFailsFirst ==
  tracer = "scc" =>
    /\ ~EdgesInRange => (pc \in {"start", "failed"} /\ frames = <<>> /\ heap = <<>>)
    /\ EdgesInRange => pc # "failed"

\* rejected although every source index is in range: the reversed list threw
C6_Witness ==
  /\ tracer = "scc"
  /\ pc = "failed"
  /\ frames = <<>>
  /\ \A k \in 1..Len(preset.edges) : preset.edges[k][1] \in Nodes
  /\ \E k \in 1..Len(preset.edges) : preset.edges[k][2] \notin Nodes

\* C7: with an empty text or an empty pattern buildSearchEvents returns the
\* init frame alone, and its match list is empty.
C7_EmptyInputGivesInitOnly ==
  (SearchDone /\ (text = <<>> \/ pattern = <<>>)) =>
    /\ Len(events) = 1
    /\ events[1].type = "init"
    /\ heap[events[1].matches] = <<>>
    /\ FinalMatches = <<>>

C7_Witness ==
  /\ SearchDone
  /\ pattern = <<>>
  /\ Len(text) >= 2
  /\ Len(events) = 1

\* C8: for the empty pattern buildFailureEvents returns one frame, of type
\* init, whose table is [-1].
C8_EmptyPatternGivesInitOnly ==
  (FailureDone /\ pattern = <<>>) =>
    /\ Len(events) = 1
    /\ events[1].type = "init"
    /\ heap[events[1].b] = <<-1>>

C8_Witness ==
  /\ FailureDone
  /\ pattern = <<>>
  /\ Len(events) = 1
  /\ heap[b] = <<-1>>

\* the frames of dfs1 / dfs2 entered for node v
VisitFrames(kind, v) ==
  {x \in 1..Len(frames) : frames[x].note[1] = kind /\ frames[x].activeNode = v}

\* the most frames a trace of buildFrames can hold on n nodes and e edges: per
\* pass a start (or skip), a visit and a finish frame per node and one frame
\* per edge, the complete frames of pass 2, the reverse and the done frame
MostFrames == 8 * Len(preset.nodes) + 2 * Len(preset.edges) + 2

\* C9: on a graph with in-range edges (self-loops, parallel edges, no edges or
\* no nodes included) buildFrames raises no failure and returns: until it has
\* returned it can always take a step, every step adds a frame or moves the
\* loop of pass 1 on, and the trace never exceeds MostFrames; at the return
\* every node has been visited exactly once in pass 1 and exactly once in
\* pass 2, and the trace holds one done frame, its last.
C9_ValidGraphTerminates ==
  /\ []((tracer = "scc" /\ EdgesInRange) =>
          /\ pc # "failed"
          /\ pc # "done" => ENABLED NextScc
          /\ Running => (Len(frames) <= MostFrames /\ i <= Len(preset.nodes))
          /\ pc = "done" =>
               /\ \A v \in Nodes :
                    /\ Cardinality(VisitFrames("Pass 1: visit", v)) = 1
                    /\ Cardinality(VisitFrames("Pass 2: add to current SCC", v)) = 1
               /\ {x \in 1..Len(frames) : frames[x].phase = "done"} = {Len(frames)})
  /\ [][(tracer = "scc" /\ pc \notin {"start", "done"}) =>
          Len(frames') + i' > Len(frames) + i]_vars

\* returned on a graph with a self-loop supplied twice
C9_Witness ==
  /\ SccDone
  /\ \E x, y \in 1..Len(preset.edges) :
       /\ x # y
       /\ preset.edges[x] = preset.edges[y]
       /\ preset.edges[x][1] = preset.edges[x][2]

\* the nodes of the frames of one kind, in trace order
RECURSIVE NodesOfKind(_, _)
NodesOfKind(kind, n) ==
  IF n = 0 THEN <<>>
  ELSE IF frames[n].note[1] = kind
    THEN Append(NodesOfKind(kind, n - 1), frames[n].activeNode)
    ELSE NodesOfKind(kind, n - 1)

\* C10 as stated: on n nodes and no edges buildFrames yields the n singleton
\* components, started, completed and listed in the order 0, 1, ..., n-1.
C10_SingletonsAscending ==
  (SccDone /\ preset.edges = <<>>) =>
    LET n == Len(preset.nodes)
    IN  /\ FinalSccs = [x \in 1..n |-> <<x - 1>>]
        /\ NodesOfKind("Pass 2: start new SCC from", Len(frames))
             = [x \in 1..n |-> x - 1]
        /\ NodesOfKind("Pass 2: complete SCC", Len(frames)) = [x \in 1..n |-> x - 1]

\* C10 amended: on n nodes and no edges buildFrames yields the n singleton
\* components; pass 1 starts them in the order 0, 1, ..., n-1 and pass 2 starts,
\* completes and lists them in the reverse order n-1, ..., 1, 0.
C10_SingletonsDescending ==
  (SccDone /\ preset.edges = <<>>) =>
    LET n == Len(preset.nodes)
    IN  /\ FinalSccs = [x \in 1..n |-> <<n - x>>]
        /\ NodesOfKind("Pass 1: start DFS from", Len(frames)) = [x \in 1..n |-> x - 1]
        /\ NodesOfKind("Pass 2: start new SCC from", Len(frames))
             = [x \in 1..n |-> n - x]
        /\ NodesOfKind("Pass 2: complete SCC", Len(frames)) = [x \in 1..n |-> n - x]

C10_Witness ==
  /\ SccDone
  /\ preset.edges = <<>>
  /\ Len(preset.nodes) = 2
  /\ FinalSccs = << <<1>>, <<0>> >>

\* -------------------------------------------------------------- C11 - C15
\* C11: in every frame of a failure-table trace b[0] = -1 and every filled
\* entry n, 1 <= n <= filledUntil, satisfies -1 <= b[n] < n; hence the table of
\* the last frame has entry 0 equal to -1 and -1 <= table[n] < n for every n
\* in 1..len(p).
C11_TableEntriesInRange ==
  (tracer = "failure" /\ Running) =>
    /\ \A x \in 1..Len(events) :
         LET t == heap[events[x].b]
         IN  /\ At(t, 0) = -1
             /\ events[x].filledUntil \in 0..Len(pattern)
             /\ \A n \in 1..events[x].filledUntil : -1 <= At(t, n) /\ At(t, n) < n
    /\ pc = "done" =>
         /\ Len(FinalTable) = Len(pattern) + 1
         /\ At(FinalTable, 0) = -1
         /\ \A n \in 1..Len(pattern) : -1 <= At(FinalTable, n) /\ At(FinalTable, n) < n

\* returned on a pattern that fell back, with a positive entry in the table
C11_Witness ==
  /\ FailureDone
  /\ pattern = <<"A", "B", "A", "A">>
  /\ FinalTable = <<-1, 0, 0, 1, 1>>
  /\ \E x \in 1..Len(events) : events[x].type = "fallback"

\* every character of p is the same
AllSame(p) == \A x, y \in 1..Len(p) : p[x] = p[y]

\* C12: for a pattern of one repeated character, of length m >= 1, the table of
\* the last frame has table[n] = n - 1 for every n in 1..m.
C12_RepeatedCharacterTable ==
  (FailureDone /\ Len(pattern) >= 1 /\ AllSame(pattern)) =>
    \A n \in 1..Len(pattern) : At(FinalTable, n) = n - 1

C12_Witness ==
  /\ FailureDone
  /\ pattern = <<"A", "A", "A", "A">>
  /\ FinalTable = <<-1, 0, 1, 2, 3>>

\* the component list the builder's variable sccs holds
WorkingSccs == [x \in 1..Len(heap[sccs]) |-> heap[heap[sccs][x]]]

\* C13: the result of each builder is read off the last frame of its trace:
\* the last failure-table frame has filledUntil = len(pattern) and carries the
\* whole table the builder computed, the last search frame carries the whole
\* match list, and the last frame of buildFrames has phase done and carries
\* the whole component list.
C13_LastFrameCarriesResult ==
  /\ FailureDone =>
       /\ Last(events).filledUntil = Len(pattern)
       /\ Len(FinalTable) = Len(pattern) + 1
       /\ FinalTable = heap[b]
  /\ SearchDone => FinalMatches = heap[matches]
  /\ SccDone =>
       /\ Last(frames).phase = "done"
       /\ FinalSccs = WorkingSccs

\* returned with two matches; the first frame carries none of them
C13_Witness ==
  /\ SearchDone
  /\ text = <<"A", "B", "A", "B">>
  /\ pattern = <<"A", "B">>
  /\ FinalMatches = <<0, 2>>
  /\ heap[events[1].matches] = <<>>

\* C14: buildSearchEvents on the default inputs, text ABABDABABCABAB and
\* pattern ABABC, ends with the match list [5].
C14_DefaultSearchFindsFive ==
  (SearchDone /\ text = DEFAULT_TEXT /\ pattern = DEFAULT_PATTERN) =>
    FinalMatches = <<5>>

\* returned on the default inputs, with one found frame, after text index 9
C14_Witness ==
  /\ SearchDone
  /\ text = DEFAULT_TEXT
  /\ pattern = DEFAULT_PATTERN
  /\ \E x \in 1..Len(events) :
       /\ events[x].type = "found"
       /\ events[x].textIndex = 10
       /\ events[x].matchIndex = 5
  /\ Last(events).textIndex = Len(DEFAULT_TEXT)

\* the node labels of a component
LabelsOf(c) == {label(c[x]) : x \in 1..Len(c)}

\* C15: buildFrames on the six-node preset, nodes A..F and edges A->B, B->C,
\* C->A, C->D, D->E, E->F, F->D, ends with exactly two components, whose node
\* sets are {A,B,C} and {D,E,F}.
C15_SixNodePresetHasTwoComponents ==
  (SccDone /\ preset = PRESETS[1]) =>
    /\ Len(FinalSccs) = 2
    /\ {LabelsOf(FinalSccs[x]) : x \in 1..Len(FinalSccs)}
         = {{"A", "B", "C"}, {"D", "E", "F"}}
    /\ \A x \in 1..Len(FinalSccs) : Len(FinalSccs[x]) = 3

\* returned on the six-node preset with the components in discovery order
C15_Witness ==
  /\ SccDone
  /\ preset = PRESETS[1]
  /\ preset.nodes = <<"A", "B", "C", "D", "E", "F">>
  /\ FinalSccs = << <<0, 2, 1>>, <<3, 5, 4>> >>

\* -------------------------------------------------------------- C16 - C20
\* the positions of the set frames of a failure-table trace
SetFrames == {x \in 1..Len(events) : events[x].type = "set"}

\* C16: in a failure-table trace every compare frame with match = false is
\* followed at once by a fallback frame with the same iIndex and jIndex and
\* nextJ = b[jIndex]; a compare frame with match = true has jIndex >= 0 and is
\* followed at once by a set frame; and a returned trace holds exactly
\* len(pattern) set frames, with setIndex 1, 2, ..., len(pattern) in that
\* order, each with b[setIndex] = jIndex.
C16_FailureFramesFollowTheLoop ==
  (tracer = "failure" /\ Running) =>
    /\ \A x \in 1..Len(events) :
         LET f == events[x]
         IN  /\ (f.type = "compare" /\ ~f.match) =>
                  /\ x < Len(events)
                  /\ events[x + 1].type = "fallback"
                  /\ events[x + 1].iIndex = f.iIndex
                  /\ events[x + 1].jIndex = f.jIndex
                  /\ events[x + 1].nextJ = At(heap[events[x + 1].b], f.jIndex)
             /\ (f.type = "compare" /\ f.match) =>
                  /\ f.jIndex >= 0
                  /\ x < Len(events)
                  /\ events[x + 1].type = "set"
             /\ f.type = "fallback" =>
                  /\ x > 1
                  /\ events[x - 1].type = "compare"
                  /\ ~events[x - 1].match
             /\ f.type = "set" =>
                  /\ f.setIndex = Cardinality({y \in SetFrames : y <= x})
                  /\ At(heap[f.b], f.setIndex) = f.jIndex
    /\ Cardinality(SetFrames) = filledUntil
    /\ pc = "done" => Cardinality(SetFrames) = Len(pattern)

\* returned with a mismatch that fell back to a border, a match, and a set
\* frame that was not preceded by a compare
C16_Witness ==
  /\ FailureDone
  /\ Len(pattern) = 4
  /\ \E x \in 1..Len(events) :
       /\ events[x].type = "fallback"
       /\ events[x].nextJ >= 0
  /\ \E x \in 1..Len(events) : events[x].type = "compare" /\ events[x].match
  /\ \E x \in 2..Len(events) :
       events[x].type = "set" /\ events[x - 1].type = "fallback"

\* C17: in a search trace an advance frame that reaches patternIndex =
\* len(pattern) is followed at once by a found frame with matchIndex =
\* textIndex - len(pattern), and that by a fallback frame with the same
\* textIndex, prevPatternIndex = len(pattern) and patternIndex =
\* table[len(pattern)], so that overlapping occurrences are reported (AAAA and
\* AA give [0, 1, 2]); a found frame stands nowhere else.  The one advance
\* frame not yet followed is the last, while the test of line 118 is pending.
C17_FoundFollowsFullAdvance ==
  (tracer = "search" /\ Running) =>
    LET m == Len(pattern)
    IN  /\ \A x \in 1..Len(events) :
             LET f == events[x]
             IN  /\ (f.type = "advance" /\ f.patternIndex = m) =>
                      \/ /\ x = Len(events)
                         /\ pc = "check"
                      \/ /\ x + 2 <= Len(events)
                         /\ events[x + 1].type = "found"
                         /\ events[x + 1].textIndex = f.textIndex
                         /\ events[x + 1].matchIndex = f.textIndex - m
                         /\ Last(heap[events[x + 1].matches]) = f.textIndex - m
                         /\ events[x + 2].type = "fallback"
                         /\ events[x + 2].textIndex = f.textIndex
                         /\ events[x + 2].prevPatternIndex = m
                         /\ events[x + 2].patternIndex = At(heap[b], m)
                         /\ events[x + 2].patternIndex = LongestBorder(pattern, m)
                 /\ f.type = "found" =>
                      /\ x > 1
                      /\ events[x - 1].type = "advance"
                      /\ events[x - 1].patternIndex = m
        /\ (pc = "done" /\ text = <<"A", "A", "A", "A">> /\ pattern = <<"A", "A">>) =>
             FinalMatches = <<0, 1, 2>>

\* returned after two overlapping occurrences: the scan went on from j = 1
C17_Witness ==
  /\ SearchDone
  /\ text = <<"A", "A", "A">>
  /\ pattern = <<"A", "A">>
  /\ Cardinality({x \in 1..Len(events) : events[x].type = "found"}) = 2
  /\ \E x \in 2..Len(events) :
       /\ events[x].type = "fallback"
       /\ events[x - 1].type = "found"
       /\ events[x].patternIndex = 1

\* the positions of the reverse frames of a trace of buildFrames
ReverseFrames == {x \in 1..Len(frames) : frames[x].phase = "reverse"}

\* the finish order frame x carries
FinishOrderAt(x) == heap[frames[x].finishOrder]

\* C18: pass 1 starts a DFS from every node that is still unvisited when the
\* loop reaches it, in ascending node-index order (a start frame for v shows v
\* unvisited and every smaller node visited), and every finished node is
\* appended to the one finishOrder (each frame carries the finish order of the
\* frame before it, a finish frame with its node appended); there is a single
\* reverse frame, and there finishOrder lists each of the n nodes exactly once
\* and order is finishOrder reversed.
C18_PassOneOrderAndReverse ==
  (tracer = "scc" /\ Running) =>
    /\ \A x \in 1..Len(frames) :
         LET f == frames[x]
         IN  /\ f.note[1] = "Pass 1: start DFS from" =>
                  /\ f.phase = "pass1"
                  /\ ~At(heap[f.visited1], f.activeNode)
                  /\ \A u \in 0..(f.activeNode - 1) : At(heap[f.visited1], u)
                  /\ \A y \in 1..(x - 1) :
                       frames[y].note[1] = "Pass 1: start DFS from" =>
                         frames[y].activeNode < f.activeNode
             /\ FinishOrderAt(x) =
                  IF f.note[1] = "Pass 1: finish"
                    THEN Append(IF x = 1 THEN <<>> ELSE FinishOrderAt(x - 1),
                                f.activeNode)
                    ELSE IF x = 1 THEN <<>> ELSE FinishOrderAt(x - 1)
             /\ f.phase = "reverse" =>
                  /\ Len(FinishOrderAt(x)) = Len(preset.nodes)
                  /\ Range(FinishOrderAt(x)) = Nodes
                  /\ heap[f.order] = Reverse(FinishOrderAt(x))
                  /\ \A u \in Nodes : At(heap[f.visited1], u)
    /\ Cardinality(ReverseFrames) = IF phase \in {"pass2", "done"} THEN 1 ELSE 0

\* past the reverse frame on two nodes that needed two DFS trees, the second
\* tree finishing first in the processing order
C18_Witness ==
  /\ tracer = "scc"
  /\ pc = "p2loop"
  /\ index = 0
  /\ preset.edges = << <<1, 0>> >>
  /\ NodesOfKind("Pass 1: start DFS from", Len(frames)) = <<0, 1>>
  /\ heap[Last(frames).finishOrder] = <<0, 1>>
  /\ heap[Last(frames).order] = <<1, 0>>

\* the positions of the frames whose note is of one of the kinds
FramesOfKind(kinds) == {x \in 1..Len(frames) : frames[x].note[1] \in kinds}

\* the frames that open the handling of an entry of order in pass 2
EntryFrames ==
  FramesOfKind({"Pass 2: already assigned, skip", "Pass 2: start new SCC from"})

\* the frames dfs2 pushes
Dfs2Kinds ==
  {"Pass 2: add to current SCC", "Pass 2: follow reversed edge",
   "Pass 2: finish in this SCC"}

\* the kinds of frame that may follow the handling of an entry of order
AfterEntryKinds ==
  {"Pass 2: already assigned, skip", "Pass 2: start new SCC from",
   "All SCCs discovered. Total"}

\* C19: pass 2 handles the entries of order in their sequence, orderIndex
\* taking the values 0, 1, ..., n-1 in ascending order, and for each entry
\* pushes exactly one of: a skip frame, when the node already belongs to a
\* component, or a start frame followed by the frames of that component's DFS
\* and one complete frame; hence the skip frames number n minus the number of
\* components.
C19_PassTwoFollowsOrder ==
  (tracer = "scc" /\ Running) =>
    /\ \A x \in EntryFrames :
         LET f == frames[x]
             skipped == f.note[1] = "Pass 2: already assigned, skip"
         IN  /\ f.phase = "pass2"
             /\ f.orderIndex = Cardinality({y \in EntryFrames : y < x})
             /\ f.activeNode = At(heap[f.order], f.orderIndex)
             /\ skipped <=> At(heap[f.visited2], f.activeNode)
             /\ (skipped /\ x < Len(frames)) =>
                  frames[x + 1].note[1] \in AfterEntryKinds
    /\ \A x \in 2..Len(frames) :
         frames[x].phase \in {"pass2", "done"} =>
           frames[x].orderIndex >= frames[x - 1].orderIndex
    /\ pc = "done" =>
         /\ Cardinality(EntryFrames) = Len(preset.nodes)
         /\ \A x \in FramesOfKind({"Pass 2: start new SCC from"}) :
              \E y \in (x + 2)..Len(frames) :
                /\ frames[y].note[1] = "Pass 2: complete SCC"
                /\ frames[y].orderIndex = frames[x].orderIndex
                /\ frames[y].activeNode = frames[x].activeNode
                /\ Len(heap[frames[y].sccs]) = Len(heap[frames[x].sccs]) + 1
                /\ frames[x + 1].note[1] = "Pass 2: add to current SCC"
                /\ frames[x + 1].activeNode = frames[x].activeNode
                /\ \A z \in (x + 1)..(y - 1) :
                     /\ frames[z].note[1] \in Dfs2Kinds
                     /\ frames[z].orderIndex = frames[x].orderIndex
                /\ frames[y + 1].note[1] \in AfterEntryKinds
         /\ Cardinality(FramesOfKind({"Pass 2: complete SCC"}))
              = Cardinality(FramesOfKind({"Pass 2: start new SCC from"}))
         /\ Cardinality(FramesOfKind({"Pass 2: complete SCC"})) = Len(FinalSccs)
         /\ Cardinality(FramesOfKind({"Pass 2: already assigned, skip"}))
              = Len(preset.nodes) - Len(FinalSccs)
         /\ Last(frames).orderIndex = Len(preset.nodes) - 1

\* returned on the seven-node preset: three components started, four entries
\* of order skipped
C19_Witness ==
  /\ SccDone
  /\ preset = PRESETS[2]
  /\ Cardinality(FramesOfKind({"Pass 2: start new SCC from"})) = 3
  /\ Cardinality(FramesOfKind({"Pass 2: already assigned, skip"})) = 4

RECURSIVE EdgeFrames(_, _, _)
\* the pairs carried by the edge frames of one kind pushed for node v among the
\* first n frames, in trace order
EdgeFrames(kind, v, n) ==
  IF n = 0 THEN <<>>
  ELSE IF frames[n].note[1] = kind /\ frames[n].activeNode = v
    THEN Append(EdgeFrames(kind, v, n - 1), heap[frames[n].activeEdge])
    ELSE EdgeFrames(kind, v, n - 1)

RECURSIVE SuppliedFrom(_, _)
\* the edges with source v among the first k supplied, in the order supplied
SuppliedFrom(v, k) ==
  IF k = 0 THEN <<>>
  ELSE IF preset.edges[k][1] = v
    THEN Append(SuppliedFrom(v, k - 1), preset.edges[k])
    ELSE SuppliedFrom(v, k - 1)

RECURSIVE SuppliedTo(_, _)
\* the edges (u, v) with target v among the first k supplied, in the order
\* supplied, each written from v: (v, u)
SuppliedTo(v, k) ==
  IF k = 0 THEN <<>>
  ELSE IF preset.edges[k][2] = v
    THEN Append(SuppliedTo(v, k - 1), <<v, preset.edges[k][1]>>)
    ELSE SuppliedTo(v, k - 1)

IsPrefix(s, t) == Len(s) <= Len(t) /\ SubSeq(t, 1, Len(s)) = s

\* C20: in both passes the edges of a node are followed in the order the edge
\* list supplied them, never sorted: for a node v the pass-1 edge frames (v, w)
\* come in the order of the supplied edges with source v, and the pass-2 edge
\* frames (v, u) in the order of the supplied edges (u, v) with target v; each
\* list is complete once its pass is over.
C20_EdgesFollowedInSuppliedOrder ==
  (tracer = "scc" /\ Running) =>
    \A v \in Nodes :
      LET one == EdgeFrames("Pass 1: follow edge", v, Len(frames))
          two == EdgeFrames("Pass 2: follow reversed edge", v, Len(frames))
      IN  /\ IsPrefix(one, SuppliedFrom(v, Len(preset.edges)))
          /\ IsPrefix(two, SuppliedTo(v, Len(preset.edges)))
          /\ phase # "pass1" => one = SuppliedFrom(v, Len(preset.edges))
          /\ pc = "done" => two = SuppliedTo(v, Len(preset.edges))

\* returned on a graph whose node 0 was given its edges in descending order
\* of target, and followed them so
C20_Witness ==
  /\ SccDone
  /\ preset.edges = << <<0, 1>>, <<0, 0>> >>
  /\ EdgeFrames("Pass 1: follow edge", 0, Len(frames)) = << <<0, 1>>, <<0, 0>> >>
  /\ EdgeFrames("Pass 2: follow reversed edge", 0, Len(frames)) = << <<0, 0>> >>

\* -------------------------------------------------------------- C21 - C30
\* the names of the frames of a pass: DFS start, visit, edge, finish
PassKinds(p) ==
  IF p = 1
    THEN [start |-> "Pass 1: start DFS from", visit |-> "Pass 1: visit",
          edge |-> "Pass 1: follow edge", finish |-> "Pass 1: finish"]
    ELSE [start |-> "Pass 2: start new SCC from",
          visit |-> "Pass 2: add to current SCC",
          edge |-> "Pass 2: follow reversed edge",
          finish |-> "Pass 2: finish in this SCC"]

\* the visited flags of a pass that frame x carries
VisitedAt(p, x) == IF p = 1 THEN heap[frames[x].visited1] ELSE heap[frames[x].visited2]

\* the position of the one frame of a kind pushed for node v
PositionOf(kind, v) == CHOOSE x \in VisitFrames(kind, v) : TRUE

\* C21: in each pass every node has exactly one visit frame and exactly one
\* finish frame, the visit first, and the visit/finish pairs of two nodes are
\* nested or apart, never interleaved; a visit is preceded at once by the start
\* frame of its DFS tree or by the edge frame of the edge leading to the node;
\* an edge frame whose target is already visited (a self-loop included) is not
\* followed by a descent, and one whose target is unvisited is.
C21_VisitsAndFinishesNest ==
  (tracer = "scc" /\ Running) =>
    \A p \in {1, 2} :
      LET kd == PassKinds(p)
      IN  /\ \A x \in 1..Len(frames) :
               LET f == frames[x]
               IN  /\ f.note[1] = kd.visit =>
                        /\ x > 1
                        /\ \/ /\ frames[x - 1].note[1] = kd.start
                              /\ frames[x - 1].activeNode = f.activeNode
                           \/ /\ frames[x - 1].note[1] = kd.edge
                              /\ heap[frames[x - 1].activeEdge][2] = f.activeNode
                        /\ ~At(VisitedAt(p, x - 1), f.activeNode)
                        /\ Cardinality({y \in 1..x : frames[y].note[1] = kd.visit
                                          /\ frames[y].activeNode = f.activeNode}) = 1
                   /\ (f.note[1] = kd.edge /\ x < Len(frames)) =>
                        LET target == heap[f.activeEdge][2]
                            after  == frames[x + 1]
                        IN  IF At(VisitedAt(p, x), target)
                              THEN /\ after.note[1] \in {kd.edge, kd.finish}
                                   /\ after.activeNode = f.activeNode
                              ELSE /\ after.note[1] = kd.visit
                                   /\ after.activeNode = target
          /\ ((p = 1 /\ phase # "pass1") \/ pc = "done") =>
               /\ \A v \in Nodes :
                    /\ Cardinality(VisitFrames(kd.visit, v)) = 1
                    /\ Cardinality(VisitFrames(kd.finish, v)) = 1
                    /\ PositionOf(kd.visit, v) < PositionOf(kd.finish, v)
               /\ \A u, v \in Nodes :
                    ~ /\ PositionOf(kd.visit, u) < PositionOf(kd.visit, v)
                      /\ PositionOf(kd.visit, v) < PositionOf(kd.finish, u)
                      /\ PositionOf(kd.finish, u) < PositionOf(kd.finish, v)

\* returned on a graph with a self-loop: node 1 was visited and finished inside
\* the exploration of node 0, and the self-loop was followed by no descent
C21_Witness ==
  /\ SccDone
  /\ preset.edges = << <<0, 1>>, <<1, 1>> >>
  /\ PositionOf("Pass 1: visit", 0) < PositionOf("Pass 1: visit", 1)
  /\ PositionOf("Pass 1: finish", 1) < PositionOf("Pass 1: finish", 0)
  /\ \E x \in 1..(Len(frames) - 1) :
       /\ frames[x].note[1] = "Pass 1: follow edge"
       /\ At(heap[frames[x].visited1], heap[frames[x].activeEdge][2])
       /\ frames[x + 1].note[1] = "Pass 1: finish"

\* the place of a phase in the order pass1, reverse, pass2, done
PhaseRank(ph) ==
  CASE ph = "pass1" -> 1 [] ph = "reverse" -> 2 [] ph = "pass2" -> 3 [] ph = "done" -> 4

\* the positions of the frames of a phase
FramesOfPhase(ph) == {x \in 1..Len(frames) : frames[x].phase = ph}

\* C22: the phase of the frames of a trace of buildFrames never goes back:
\* pass1 frames, then exactly one reverse frame, then pass2 frames, then
\* exactly one done frame, the last; a pass1 frame has an empty order, an empty
\* sccs and no visited2 flag set; from the reverse frame on, visited1,
\* finishOrder and order are the same in every frame.
C22_PhasesInOrder ==
  (tracer = "scc" /\ Running) =>
    /\ \A x \in 1..Len(frames) :
         LET f == frames[x]
         IN  /\ x > 1 => PhaseRank(frames[x - 1].phase) <= PhaseRank(f.phase)
             /\ f.phase = "pass1" =>
                  /\ heap[f.order] = <<>>
                  /\ heap[f.sccs] = <<>>
                  /\ \A v \in Nodes : ~At(heap[f.visited2], v)
             /\ (x > 1 /\ PhaseRank(frames[x - 1].phase) >= 2) =>
                  /\ heap[f.visited1] = heap[frames[x - 1].visited1]
                  /\ heap[f.finishOrder] = heap[frames[x - 1].finishOrder]
                  /\ heap[f.order] = heap[frames[x - 1].order]
    /\ Cardinality(FramesOfPhase("reverse")) <= 1
    /\ FramesOfPhase("pass2") # {} => Cardinality(FramesOfPhase("reverse")) = 1
    /\ pc = "done" =>
         /\ Cardinality(FramesOfPhase("reverse")) = 1
         /\ FramesOfPhase("done") = {Len(frames)}
    /\ pc # "done" => FramesOfPhase("done") = {}

\* returned with frames of all four phases, the last pass2 frame carrying the
\* order and the finish order of the reverse frame
C22_Witness ==
  /\ SccDone
  /\ preset.edges = << <<1, 0>> >>
  /\ FramesOfPhase("pass1") # {}
  /\ FramesOfPhase("pass2") # {}
  /\ \E x \in FramesOfPhase("reverse") :
       /\ heap[frames[x].order] = <<1, 0>>
       /\ heap[frames[Len(frames) - 1].order] = <<1, 0>>
       /\ heap[frames[Len(frames) - 1].finishOrder] = <<0, 1>>

\* the component list frame x carries, by value
SccsAt(x) == FrameView(heap, frames[x]).sccs

\* C23: along a trace the results only grow.  From one frame to the next the
\* failure table keeps every filled entry and filledUntil rises by 1 at a set
\* frame and by 0 elsewhere; the match list of the earlier frame is a prefix of
\* the later one, longer by one at a found frame and equal elsewhere;
\* finishOrder and sccs of the earlier frame are prefixes of the later ones,
\* the listed components unchanged; no visited1 or visited2 flag goes from
\* true to false.
C23_ResultsOnlyGrow ==
  Running =>
    \A x \in 2..Len(Trace) :
      CASE tracer = "failure" ->
             LET f == events[x]
                 g == events[x - 1]
             IN  /\ \A n \in 0..g.filledUntil : At(heap[f.b], n) = At(heap[g.b], n)
                 /\ f.filledUntil
                      = g.filledUntil + (IF f.type = "set" THEN 1 ELSE 0)
        [] tracer = "search" ->
             LET f == events[x]
                 g == events[x - 1]
             IN  /\ IsPrefix(heap[g.matches], heap[f.matches])
                 /\ Len(heap[f.matches])
                      = Len(heap[g.matches]) + (IF f.type = "found" THEN 1 ELSE 0)
        [] tracer = "scc" ->
             LET f == frames[x]
                 g == frames[x - 1]
             IN  /\ IsPrefix(heap[g.finishOrder], heap[f.finishOrder])
                 /\ IsPrefix(SccsAt(x - 1), SccsAt(x))
                 /\ \A v \in Nodes :
                      /\ At(heap[g.visited1], v) => At(heap[f.visited1], v)
                      /\ At(heap[g.visited2], v) => At(heap[f.visited2], v)

\* returned with a table of four filled entries after a fallback that left the
\* filled entries as they were
C23_Witness ==
  /\ FailureDone
  /\ pattern = <<"A", "A", "B", "A">>
  /\ Last(events).filledUntil = 4
  /\ \E x \in 2..Len(events) :
       /\ events[x].type = "fallback"
       /\ events[x].filledUntil = 2
       /\ heap[events[x].b] = <<-1, 0, 1, 0, 0>>

\* C24: for every pattern the table buildFailureTable computes for the search
\* builder equals, entry by entry, the table of the last frame of
\* buildFailureEvents on the same pattern.
C24_SearchTableEqualsTracedTable ==
  FailureDone =>
    /\ Len(buildFailureTable(pattern)) = Len(FinalTable)
    /\ \A n \in 0..Len(pattern) :
         At(buildFailureTable(pattern), n) = At(FinalTable, n)

\* returned on a pattern with borders of length 1 and 2
C24_Witness ==
  /\ FailureDone
  /\ pattern = <<"A", "B", "A", "B">>
  /\ FinalTable = <<-1, 0, 0, 1, 2>>
  /\ buildFailureTable(pattern) = <<-1, 0, 0, 1, 2>>

\* the positions of the events of one type
EventsOfType(type) == {x \in 1..Len(events) : events[x].type = type}

\* how far a KMP builder has got: the frames pushed, and the pending test of
\* line 118 counted as half a step
KmpProgress ==
  2 * Len(events) + (CASE pc = "check" -> 0 [] pc = "loop" -> 1 [] OTHER -> 2)

\* C25: the two string builders return, with traces linear in the input.  A
\* fallback frame lowers the pattern index, to no less than -1; until the
\* return a step can be taken and every step takes the builder on; a returned
\* search trace on a non-empty text and pattern holds exactly len(text)
\* advance frames, at most len(text) fallback frames and at most
\* 4*len(text)+1 frames; a returned failure-table trace on a non-empty pattern
\* holds exactly len(pattern) set frames and fewer than len(pattern) fallback
\* frames.
C25_StringTracesAreLinear ==
  /\ []((tracer = "failure" /\ Running) =>
          /\ \A x \in EventsOfType("fallback") :
               events[x].nextJ < events[x].jIndex /\ events[x].nextJ >= -1
          /\ pc # "done" => ENABLED NextFailure
          /\ Len(events) <= 4 * Len(pattern) + 1
          /\ (pc = "done" /\ pattern # <<>>) =>
               /\ Cardinality(EventsOfType("set")) = Len(pattern)
               /\ Cardinality(EventsOfType("fallback")) < Len(pattern))
  /\ []((tracer = "search" /\ Running) =>
          /\ \A x \in EventsOfType("fallback") :
               /\ events[x].patternIndex < events[x].prevPatternIndex
               /\ events[x].patternIndex >= -1
          /\ pc # "done" => ENABLED NextSearch
          /\ Len(events) <= 4 * Len(text) + 1
          /\ (pc = "done" /\ text # <<>> /\ pattern # <<>>) =>
               /\ Cardinality(EventsOfType("advance")) = Len(text)
               /\ Cardinality(EventsOfType("fallback")) <= Len(text))
  /\ [][(tracer \in {"failure", "search"} /\ pc \in {"loop", "check"}) =>
          KmpProgress' > KmpProgress]_vars

\* returned on a text that fell back at every character: as many fallback
\* frames as the text is long
C25_Witness ==
  /\ SearchDone
  /\ Len(text) = 4
  /\ pattern # <<>>
  /\ Cardinality(EventsOfType("fallback")) = 4
  /\ Cardinality(EventsOfType("advance")) = 4

\* C26: at every compare frame of a search trace, with textIndex i and
\* patternIndex j: 0 <= j < len(pattern), 0 <= i < len(text), j <= i, the j
\* text characters before i are the first j pattern characters, and match is
\* true exactly when text[i] = pattern[j]; in every frame 0 <= textIndex <=
\* len(text) and -1 <= patternIndex <= len(pattern).
C26_CompareFramesKeepTheAlignment ==
  (tracer = "search" /\ Running) =>
    \A x \in 1..Len(events) :
      LET f  == events[x]
          ti == f.textIndex
          pj == f.patternIndex
      IN  /\ ti \in 0..Len(text)
          /\ pj \in -1..Len(pattern)
          /\ f.type = "compare" =>
               /\ pj \in 0..(Len(pattern) - 1)
               /\ ti \in 0..(Len(text) - 1)
               /\ pj <= ti
               /\ SubSeq(text, ti - pj + 1, ti) = SubSeq(pattern, 1, pj)
               /\ f.match <=> (text[ti + 1] = pattern[pj + 1])

\* returned with a mismatch found two characters into the pattern and a match
\* found after the fallback
C26_Witness ==
  /\ SearchDone
  /\ \E x \in 1..Len(events) :
       /\ events[x].type = "compare"
       /\ ~events[x].match
       /\ events[x].patternIndex = 2
  /\ \E x \in 1..Len(events) :
       /\ events[x].type = "compare"
       /\ events[x].match
       /\ events[x].patternIndex = 1
       /\ events[x - 1].type = "fallback"

\* the supplied edge list has an edge from u to v
HasEdge(u, v) == \E k \in 1..Len(preset.edges) : preset.edges[k] = <<u, v>>

\* the nodes whose flag is set in a list of visited flags
Flagged(visited) == {v \in Nodes : At(visited, v)}

\* C27: in every pass-1 frame the stack is the current DFS path: no node
\* twice, consecutive entries joined by a forward edge, and the nodes with
\* visited1 set are the nodes on the stack together with the nodes in
\* finishOrder, no node in both; in every pass-2 frame every node on the stack
\* is in currentComponent and consecutive entries are joined by a reversed
\* edge.
C27_StackIsTheDfsPath ==
  (tracer = "scc" /\ Running) =>
    \A x \in 1..Len(frames) :
      LET f  == frames[x]
          st == heap[f.stack]
          fo == heap[f.finishOrder]
      IN  /\ f.phase = "pass1" =>
               /\ Cardinality(Range(st)) = Len(st)
               /\ \A k \in 1..(Len(st) - 1) : HasEdge(st[k], st[k + 1])
               /\ Flagged(heap[f.visited1]) = Range(st) \cup Range(fo)
               /\ Range(st) \cap Range(fo) = {}
               /\ Cardinality(Range(fo)) = Len(fo)
          /\ f.phase = "pass2" =>
               /\ Range(st) \subseteq Range(heap[f.currentComponent])
               /\ Cardinality(Range(st)) = Len(st)
               /\ \A k \in 1..(Len(st) - 1) : HasEdge(st[k + 1], st[k])
               /\ Range(heap[f.currentComponent]) \subseteq Flagged(heap[f.visited2])

\* returned on the seven-node preset: a pass-1 frame with a path of five nodes
\* and two finished, a pass-2 frame with a path of three
C27_Witness ==
  /\ SccDone
  /\ preset = PRESETS[2]
  /\ \E x \in 1..Len(frames) :
       /\ frames[x].phase = "pass1"
       /\ heap[frames[x].stack] = <<0, 1, 2, 3, 4>>
       /\ heap[frames[x].finishOrder] = <<6, 5>>
  /\ \E x \in 1..Len(frames) :
       /\ frames[x].phase = "pass2"
       /\ Len(heap[frames[x].stack]) = 3

\* the nodes of the completed components frame x lists
CompletedNodes(x) == UNION {Range(SccsAt(x)[c]) : c \in 1..Len(SccsAt(x))}

\* C28: in every frame of a trace of buildFrames a non-empty currentComponent,
\* which the widget renders as "SCC #k (in progress)" with k = sccs.length + 1,
\* is a component still in progress: none of its nodes is in a completed
\* component of that frame's sccs; and in the done frame currentComponent is
\* empty.
C28_CurrentComponentInProgress ==
  (tracer = "scc" /\ Running) =>
    \A x \in 1..Len(frames) :
      /\ InProgressShown(heap, frames[x]) =>
           Range(heap[frames[x].currentComponent]) \cap CompletedNodes(x) = {}
      /\ frames[x].phase = "done" => ~InProgressShown(heap, frames[x])

\* the done frame of the six-node preset: currentComponent still holds D, F, E,
\* the second of the two completed components, and is rendered as SCC #3
C28_Witness ==
  /\ SccDone
  /\ preset = PRESETS[1]
  /\ SccsAt(Len(frames)) = << <<0, 2, 1>>, <<3, 5, 4>> >>
  /\ heap[Last(frames).currentComponent] = <<3, 5, 4>>
  /\ InProgressShown(heap, Last(frames))
  /\ InProgressNumber(heap, Last(frames)) = 3

\* the positions of the frames of a phase that carry an edge
EdgeFramesOfPhase(ph) ==
  {x \in FramesOfPhase(ph) : frames[x].activeEdge # NullRef}

\* the positions at which the supplied edge list holds the edge e
SuppliedAt(e) == {k \in 1..Len(preset.edges) : preset.edges[k] = e}

\* C30: each pass pushes exactly one edge frame per supplied edge, parallel
\* edges and self-loops counted one by one and edges to visited nodes included:
\* pass 1 has exactly |E| frames with an activeEdge, the edge (from, to) as
\* often as it was supplied, and pass 2 has exactly |E| such frames, the pair
\* (to, from) as often as the edge (from, to) was supplied.
C30_OneEdgeFramePerEdge ==
  (tracer = "scc" /\ Running) =>
    /\ \A x \in EdgeFramesOfPhase("pass1") :
         SuppliedAt(heap[frames[x].activeEdge]) # {}
    /\ \A x \in EdgeFramesOfPhase("pass2") :
         SuppliedAt(Reverse(heap[frames[x].activeEdge])) # {}
    /\ EdgeFramesOfPhase("reverse") \cup EdgeFramesOfPhase("done") = {}
    /\ phase # "pass1" =>
         /\ Cardinality(EdgeFramesOfPhase("pass1")) = Len(preset.edges)
         /\ \A k \in 1..Len(preset.edges) :
              Cardinality({x \in EdgeFramesOfPhase("pass1") :
                             heap[frames[x].activeEdge] = preset.edges[k]})
                = Cardinality(SuppliedAt(preset.edges[k]))
    /\ pc = "done" =>
         /\ Cardinality(EdgeFramesOfPhase("pass2")) = Len(preset.edges)
         /\ \A k \in 1..Len(preset.edges) :
              Cardinality({x \in EdgeFramesOfPhase("pass2") :
                             heap[frames[x].activeEdge] = Reverse(preset.edges[k])})
                = Cardinality(SuppliedAt(preset.edges[k]))

\* returned on an edge supplied twice: two edge frames for it in each pass, the
\* second to a node already visited
C30_Witness ==
  /\ SccDone
  /\ preset.edges = << <<0, 1>>, <<0, 1>> >>
  /\ Cardinality({x \in EdgeFramesOfPhase("pass1") :
                    heap[frames[x].activeEdge] = <<0, 1>>}) = 2
  /\ Cardinality({x \in EdgeFramesOfPhase("pass2") :
                    heap[frames[x].activeEdge] = <<1, 0>>}) = 2

\* ------------------------------------------------------------------- C29
\* the handlers after which the index is said to be back at 0
Resetting == {"input", "preset", "reset"}

\* C29 as written: in every render of every widget the step index lies in
\* [0, length - 1]; Prev at step 0 and Next at the last step leave it where it
\* is; and in the render that follows a change of the input or of the preset,
\* or Reset, the index is 0.
C29_StepIndexAlwaysInRange ==
  /\ [](pc = "done" => stepIndex \in 0..(traceLength - 1))
  /\ [](pc = "done" /\ lastEvent \in Resetting => stepIndex = 0)
  /\ [][lastEvent' = "prev" /\ stepIndex = 0 => stepIndex' = 0]_vars
  /\ [][lastEvent' = "next" /\ stepIndex = traceLength - 1
          => stepIndex' = stepIndex]_vars

\* C29: the step index lies in [0, length - 1] in every render of the two KMP
\* widgets, and in every render of the SCC widget whose effects have run; the
\* frame shown always belongs to the trace of the current input. Prev at step
\* 0 and Next at the last step leave the index where it is. A change of a KMP
\* input and Reset of any widget put the index at 0 in the same update. A
\* change of the SCC preset leaves the index as it was for one render of the
\* new trace, which shows frame 0 when the index is past the end, and the
\* effects of that render put it at 0.
C29_StepIndexInRangeOnceEffectsRan ==
  /\ [](pc = "done" /\ (tracer # "scc" \/ ~EffectsPending)
          => stepIndex \in 0..(traceLength - 1))
  /\ [](pc = "done" => ActiveIndex \in 0..(traceLength - 1))
  /\ [](pc = "done" /\ lastEvent \in Resetting
               /\ (lastEvent # "preset" \/ ~EffectsPending)
          => stepIndex = 0)
  /\ [][lastEvent' = "prev" /\ stepIndex = 0 => stepIndex' = 0]_vars
  /\ [][lastEvent' = "next" /\ stepIndex = traceLength - 1
          => stepIndex' = stepIndex]_vars
  /\ [][lastEvent' = "preset" /\ pc = "done" /\ pc' = "start"
          => stepIndex' = stepIndex]_vars
  /\ [][EffectsPending /\ ResetEffectDue /\ stepIndex' # stepIndex
          => stepIndex' = 0 /\ ~EffectsPending']_vars

\* the SCC widget was stepped past the length of the shorter preset's trace and
\* the preset was then changed to the shorter one: the render before the effects
C29_Witness ==
  /\ tracer = "scc"
  /\ lastEvent = "preset"
  /\ preset = PRESETS[1]
  /\ pc = "done"
  /\ EffectsPending
  /\ stepIndex >= Len(frames)
  /\ ActiveIndex = 0

====
